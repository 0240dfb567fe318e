--------------------------- MODULE DailyCandidate ---------------------------
(***************************************************************************)
(* The daily candidate compiler (scripts/daily-poc.mjs): prepare() checks  *)
(* a manifest against its history, the source and its evidence, and writes *)
(* an output directory file by file; a directory is taken up again by a    *)
(* run of the same manifest and by no other.  A run may be killed between  *)
(* any two of its steps and in the middle of a write.                      *)
(*                                                                         *)
(* One run at a time.  A file's content is what it is compiled from.       *)
(***************************************************************************)
EXTENDS Naturals, Sequences, FiniteSets, SequencesExt

CONSTANTS
  Manifests,           \* [id, unique, clean, line, date, sequence, version,
                       \*  base, head, changed, history, highlights, claims,
                       \*  evidence, segments, assets, publishes]
  Sources,             \* the repository as a run finds it: [head, dirty,
                       \*  commits, ancestry, merged, tagged, readme, files,
                       \*  subjects]
  NoOutput, NoRun, Torn

VARIABLES
  dpSource,            \* the source repository
  dpState,             \* the state file: NoOutput (no directory), Torn (a
                       \* directory without one), or the state
  dpFiles, dpPartial,  \* files and .partial files: name -> content
  dpRun                \* the run under way: [manifest, verdict, writes, done]

dpVars == <<dpSource, dpState, dpFiles, dpPartial, dpRun>>

Maturity == <<"DESIGNED", "LOCALLY_VALIDATED", "CI_VALIDATED", "MERGED", "RELEASED", "PRODUCTION_VALIDATED">>
Rank(maturity) == CHOOSE i \in DOMAIN Maturity : Maturity[i] = maturity

(* verifyHistory(): every snapshot is sealed, of the release line, of its  *)
(* own date and an earlier one, and the source starts where the last ended.*)
Before(s, t) == s.date < t.date \/ (s.date = t.date /\ s.sequence < t.sequence)
HistorySound(m) ==
  /\ \A s \in m.history :
       s.sealed /\ s.version = <<m.line, s.date, s.sequence>> /\ Before(s, m)
  /\ \A s \in m.history : (\A t \in m.history \ {s} : Before(t, s)) => s.head = m.base

(* sourceFacts().                                                          *)
SourceSound(m, source) ==
  /\ source.head = m.head /\ ~source.dirty
  /\ {m.base, m.head} \subseteq source.commits /\ <<m.base, m.head>> \in source.ancestry

(* The evidence a claim cites backs it: semanticIssues(), per item and per *)
(* claim.                                                                  *)
EvidenceSound(m, source) ==
  \A e \in m.evidence : <<e.path, e.sha>> \in source.files /\ e.until >= m.date /\ e.commit = m.head

KindFor == [LOCALLY_VALIDATED |-> {"TEST", "NEGATIVE_PROBE"}, CI_VALIDATED |-> {"CI"},
            RELEASED |-> {"RELEASE_ATTESTATION"}, PRODUCTION_VALIDATED |-> {"PRODUCTION_RECORD"}]

ClaimSound(m, source, c) ==
  LET cited == {e \in m.evidence : e.id \in c.refs} IN
  /\ c.refs \subseteq {e.id : e \in m.evidence}
  /\ \A e \in cited : Rank(e.maturity) >= Rank(c.maturity)
  /\ c.maturity \in DOMAIN KindFor => \E e \in cited : e.kind \in KindFor[c.maturity]
  /\ c.maturity = "MERGED" => source.merged
  /\ c.maturity = "RELEASED" => source.tagged
  /\ c.says \in {"RELEASED", "PRODUCTION_VALIDATED"} => Rank(c.maturity) >= Rank(c.says)
  /\ ~c.contradicted

SegmentsSound(m) ==
  /\ \A a, b \in m.segments : a.order = b.order => a = b
  /\ \A s \in m.segments :
       /\ s.claims \subseteq {c.id : c \in m.claims}
       /\ s.says = "RELEASED" => \A c \in m.claims : c.id \in s.claims => Rank(c.maturity) >= Rank("RELEASED")

SemanticsSound(m, source) ==
  /\ m.unique /\ m.clean /\ ~m.publishes /\ source.readme
  /\ m.version = <<m.line, m.date, m.sequence>>
  /\ m.base = m.head => ~m.changed
  /\ m.changed => m.highlights
  /\ EvidenceSound(m, source) /\ SegmentsSound(m)
  /\ \A c \in m.claims : ClaimSound(m, source, c)

(* videoPreflight(): a render that is asked for needs its approval, its    *)
(* assets and a renderer.                                                  *)
VideoSound(m, video) == video.asked => video.approved = m.version /\ m.assets /\ video.renderer
VideoStatus(video) == IF video.asked THEN "READY_FOR_CLOSED_ADAPTER" ELSE "DISABLED_DEFAULT"

(* What prepare() decides before it writes; the generated files are        *)
(* scanned too, for they quote the commits.                                *)
Verdict(m, video, source) ==
  IF ~(HistorySound(m) /\ SourceSound(m, source) /\ SemanticsSound(m, source) /\ VideoSound(m, video)) THEN "BLOCKED"
  ELSE IF ~m.changed THEN "NO_MATERIAL_CHANGE"
  ELSE IF ~source.subjects THEN "BLOCKED"
  ELSE "READY_CANDIDATE"

(* buildCoreArtifacts() and the files prepare() adds, in the order they    *)
(* are written; the guide stands for the files the video's status is not   *)
(* in, the report's content is the verdict's.                              *)
Artifacts == <<"artifact-manifest.json", "candidate-report.json", "demo-guide.md", "SHA256SUMS", "snapshot.json">>
Content(name, m, video) ==
  IF name = "demo-guide.md" THEN [manifest |-> m.id, of |-> name]
  ELSE [manifest |-> m.id, of |-> IF name = "candidate-report.json" THEN "READY_CANDIDATE" ELSE name, video |-> VideoStatus(video)]

Writes(m, video, verdict) ==
  IF verdict = "READY_CANDIDATE"
  THEN [i \in DOMAIN Artifacts |-> [name |-> Artifacts[i], content |-> Content(Artifacts[i], m, video)]]
  ELSE <<[name |-> "candidate-report.json", content |-> [manifest |-> m.id, of |-> verdict]]>>

(* stateContent().                                                         *)
StateOf(run, phase, n) ==
  [manifest |-> run.manifest, phase |-> phase, files |-> {run.writes[i].name : i \in 1..n},
   verdict |-> IF phase \in {"complete", "blocked"} THEN run.verdict ELSE "NONE"]

DailyNames == {Artifacts[i] : i \in DOMAIN Artifacts}
DailyState ==
  [manifest : {m.id : m \in Manifests}, phase : {"initialized", "generating", "complete", "blocked"}, files : SUBSET DailyNames,
   verdict : {"BLOCKED", "NO_MATERIAL_CHANGE", "READY_CANDIDATE", "NONE"}]

ASSUME DailyAssumption == NoOutput \notin DailyState /\ Torn \notin DailyState

(* A directory with one more file.                                         *)
WithFile(files, name, content) == [n \in DOMAIN files \cup {name} |-> IF n = name THEN content ELSE files[n]]

DailyInit ==
  /\ dpSource \in Sources /\ dpState = NoOutput
  /\ dpFiles = <<>> /\ dpPartial = <<>> /\ dpRun = NoRun

SourceChanges ==
  /\ dpSource' \in Sources
  /\ UNCHANGED <<dpState, dpFiles, dpPartial, dpRun>>

(* prepare() up to initializeOutput().                                     *)
PrepareBegins(m, video) ==
  /\ dpRun = NoRun
  /\ LET verdict == Verdict(m, video, dpSource) IN
     dpRun' = [manifest |-> m.id, verdict |-> verdict, writes |-> Writes(m, video, verdict), done |-> 0, owned |-> FALSE]
  /\ UNCHANGED <<dpSource, dpState, dpFiles, dpPartial>>

RunIs(owned) == dpRun # NoRun /\ dpRun.owned = owned
RunFails == dpRun' = NoRun /\ UNCHANGED <<dpSource, dpState, dpFiles, dpPartial>>
RunKilled == dpRun # NoRun /\ RunFails

(* initializeOutput() of a directory that is there.                        *)
Resumable(run) == dpState \notin {NoOutput, Torn} /\ dpState.manifest = run.manifest

(* A directory without a state file was left by a kill, and is nobody's.   *)
InitializeOutput ==
  /\ RunIs(FALSE)
  /\ \/ /\ dpState = NoOutput
        /\ \/ dpState' = StateOf(dpRun, "initialized", 0) /\ dpRun' = [dpRun EXCEPT !.owned = TRUE]
           \/ dpState' = Torn /\ dpRun' = NoRun
        /\ UNCHANGED <<dpSource, dpFiles, dpPartial>>
     \/ /\ Resumable(dpRun) /\ dpRun' = [dpRun EXCEPT !.owned = TRUE]
        /\ UNCHANGED <<dpSource, dpState, dpFiles, dpPartial>>
     \/ /\ dpState # NoOutput /\ ~Resumable(dpRun)
        /\ RunFails

(* atomicWrite() of the next file: one that is there must be the same, a   *)
(* partial one too, and is renamed; a kill leaves a partial file, whole or *)
(* torn, or the file.                                                      *)
WriteNext ==
  /\ RunIs(TRUE) /\ dpRun.done < Len(dpRun.writes)
  /\ LET w == dpRun.writes[dpRun.done + 1]
         goes == dpRun' = [dpRun EXCEPT !.done = @ + 1]
         there == w.name \in DOMAIN dpFiles
         half == w.name \in DOMAIN dpPartial
     IN \/ there /\ dpFiles[w.name] = w.content /\ goes /\ UNCHANGED <<dpFiles, dpPartial>>
        \/ there /\ dpFiles[w.name] # w.content /\ dpRun' = NoRun /\ UNCHANGED <<dpFiles, dpPartial>>
        \/ ~there /\ half /\ dpPartial[w.name] # w.content /\ dpRun' = NoRun /\ UNCHANGED <<dpFiles, dpPartial>>
        \/ /\ ~there /\ (half => dpPartial[w.name] = w.content) /\ goes
           /\ dpFiles' = WithFile(dpFiles, w.name, w.content)
           /\ dpPartial' = [n \in DOMAIN dpPartial \ {w.name} |-> dpPartial[n]]
        \/ /\ ~there /\ ~half /\ dpRun' = NoRun
           /\ \E content \in {Torn, w.content} : dpPartial' = WithFile(dpPartial, w.name, content)
           /\ UNCHANGED dpFiles
  /\ UNCHANGED <<dpSource, dpState>>

(* overwriteState() after a file of a candidate.                           *)
StateFollows ==
  /\ RunIs(TRUE) /\ dpRun.done > 0 /\ dpRun.verdict = "READY_CANDIDATE"
  /\ dpState' = StateOf(dpRun, "generating", dpRun.done)
  /\ UNCHANGED <<dpSource, dpFiles, dpPartial, dpRun>>

(* The last overwriteState(), of prepare() or writeBlocked().              *)
RunEnds ==
  /\ RunIs(TRUE) /\ dpRun.done = Len(dpRun.writes)
  /\ dpState' = StateOf(dpRun, IF dpRun.verdict = "BLOCKED" THEN "blocked" ELSE "complete", dpRun.done)
  /\ dpRun' = NoRun
  /\ UNCHANGED <<dpSource, dpFiles, dpPartial>>

(* verify(): prepared anew elsewhere, the candidate's files are the same.  *)
VerifiedIdentical(m, video) ==
  \A i \in DOMAIN Artifacts : Artifacts[i] \in DOMAIN dpFiles /\ dpFiles[Artifacts[i]] = Content(Artifacts[i], m, video)

Videos == {[asked |-> FALSE]} \cup {[asked |-> TRUE, renderer |-> TRUE, approved |-> m.version] : m \in Manifests}

DailyNext ==
  \/ SourceChanges
  \/ \E m \in Manifests, video \in Videos : PrepareBegins(m, video)
  \/ RunKilled \/ InitializeOutput \/ WriteNext \/ StateFollows \/ RunEnds

(***************************************************************************)
(* Properties                                                              *)
(***************************************************************************)
(* A file half written is one that is not there, of the state's manifest.  *)
PartialsAreOwn ==
  \A n \in DOMAIN dpPartial :
    n \notin DOMAIN dpFiles /\ (dpPartial[n] # Torn => dpPartial[n].manifest = dpState.manifest)

(* Whatever runs were killed, torn, blocked or repeated with another       *)
(* video, source or manifest: a directory holds the files, whole and half  *)
(* written, of one manifest; once its state says a candidate is ready the  *)
(* files are one candidate's, each as verify() would compile it, with no   *)
(* report of an earlier verdict among them; and its history and evidence   *)
(* were sound when it was begun.                                           *)
(*   It does not say that the next run takes the directory up: one a kill  *)
(* left without a state file is refused by every later run (line 678), and *)
(* a .partial file torn by a kill refuses every later write of that file   *)
(* (line 652).  The first holds no file, the second no torn file that      *)
(* counts as written.                                                      *)
DailyOutputIsOneCandidates ==
  IF dpState \in {NoOutput, Torn} THEN DOMAIN dpFiles = {} /\ DOMAIN dpPartial = {} ELSE
    /\ PartialsAreOwn
    /\ \A n \in DOMAIN dpFiles : dpFiles[n].manifest = dpState.manifest
    /\ dpState.phase = "complete" =>
         /\ \A n \in dpState.files : n \in DOMAIN dpFiles
         /\ dpFiles["candidate-report.json"].of = dpState.verdict
         /\ dpState.verdict = "READY_CANDIDATE" =>
              \E m \in Manifests, video \in Videos :
                /\ m.id = dpState.manifest /\ HistorySound(m)
                /\ VerifiedIdentical(m, video)
                /\ \A c \in m.claims : \A e \in m.evidence : e.id \in c.refs => Rank(e.maturity) >= Rank(c.maturity)

(* What a run was begun with.                                              *)
RunOf(run, m, video) ==
  /\ run = [manifest |-> m.id, verdict |-> run.verdict, writes |-> Writes(m, video, run.verdict), done |-> run.done,
            owned |-> run.owned]
  /\ run.verdict \in {"BLOCKED", "NO_MATERIAL_CHANGE", "READY_CANDIDATE"}
  /\ run.done \in 0..Len(run.writes) /\ run.owned \in BOOLEAN
  /\ run.verdict = "READY_CANDIDATE" =>
       /\ HistorySound(m)
       /\ \A c \in m.claims : \A e \in m.evidence : e.id \in c.refs => Rank(e.maturity) >= Rank(c.maturity)

(* The inductive invariant: what a run has done is in the directory.       *)
DailyInv ==
  /\ DailyOutputIsOneCandidates
  /\ dpState \in DailyState \cup {NoOutput, Torn}
  /\ dpState \notin {NoOutput, Torn} /\ dpState.phase = "complete" => "candidate-report.json" \in DOMAIN dpFiles
  /\ dpRun # NoRun =>
       /\ \E m \in Manifests, video \in Videos : RunOf(dpRun, m, video)
       /\ dpRun.owned => dpState \in DailyState /\ dpState.manifest = dpRun.manifest
       /\ ~dpRun.owned => dpRun.done = 0
       /\ \A i \in 1..dpRun.done :
            dpRun.writes[i].name \in DOMAIN dpFiles /\ dpFiles[dpRun.writes[i].name] = dpRun.writes[i].content
=============================================================================
