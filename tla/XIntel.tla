------------------------------- MODULE XIntel -------------------------------
(***************************************************************************)
(* The X intelligence loop: fetch what each configured source published    *)
(* since its high-water mark, merge it into the post store, note it as     *)
(* seen, and write a digest (src/src/loopcraft/research_intel/x/cli.py     *)
(* XIntelRunner.run, x/store.py, jsonl.py).                                *)
(*                                                                         *)
(* The marks move while the sources are fetched, the posts are saved only  *)
(* after the last of them: a run that dies, or a phase that fails, in      *)
(* between decides what the next run never asks for again.  One run at a   *)
(* time, as systemd has it; the sources' posts are numbered apart.         *)
(***************************************************************************)
EXTENDS Naturals

CONSTANTS
  Source,     \* the queries, lists and author batches that are configured
  PhaseOf,    \* which of the five phases fetches each of them
  Last,       \* bound: how many posts a source publishes
  PageSize,   \* max_posts_per_run: the posts one request returns
  MaxRuns     \* bound: how many runs there are

LastPhase == 5
ASSUME SourceAssumption == Source # {} /\ PhaseOf \in [Source -> 1..LastPhase]
ASSUME BoundAssumption == Last \in Nat /\ PageSize \in Nat \ {0} /\ MaxRuns \in Nat

Post == Source \X (1..Last)
\* The files of the ledger a run reads before it writes.
File == {"state", "posts", "seen"}

VARIABLES
  published,  \* how many posts each source has published
  highWater,  \* source-state.json: the mark of each source
  saved,      \* posts.jsonl
  seen,       \* seen.json
  torn,       \* the files a death left unreadable
  pc,         \* where the run is
  dry,        \* whether it is a dry run
  phase,      \* the phase it fetches
  todo,       \* the sources of the phase still to fetch
  at,         \* the source it just fetched
  page,       \* the posts that source returned
  batch,      \* the posts of the phase so far
  raw,        \* the posts of the phases before
  runs,       \* the runs started
  got,        \* history: posts received in this run
  tried,      \* history: sources asked in this run
  failed,     \* history: phases that failed in this run
  cut,        \* history: posts a mark passed that no page held
  dropped,    \* history: marked posts in hand when a phase failed or a run died
  reported    \* history: posts in the digest of a run that was not dry

ledger == <<highWater, saved, seen, torn>>
hands == <<page, batch, raw>>
run == <<dry, phase, todo, at, hands, got, tried, failed>>
past == <<cut, dropped, reported>>
vars == <<published, ledger, pc, run, runs, past>>

\* The file each step reads first.
Reads == [fetch |-> "state", save |-> "posts", mark |-> "seen", persist |-> "state"]

TypeOK ==
  /\ published \in [Source -> 0..Last] /\ highWater \in [Source -> 0..Last]
  /\ saved \subseteq Post /\ seen \subseteq Post /\ torn \subseteq File
  /\ pc \in {"idle", "remember", "digest"} \cup DOMAIN Reads
  /\ dry \in BOOLEAN /\ phase \in 1..LastPhase /\ todo \subseteq Source /\ at \in Source
  /\ page \subseteq Post /\ batch \subseteq Post /\ raw \subseteq Post
  /\ runs \in 0..MaxRuns
  /\ got \subseteq Post /\ tried \subseteq Source /\ failed \subseteq 1..LastPhase
  /\ cut \subseteq Post /\ dropped \subseteq Post /\ reported \subseteq Post

Init ==
  /\ published = [s \in Source |-> 0] /\ highWater = [s \in Source |-> 0]
  /\ saved = {} /\ seen = {} /\ torn = {}
  /\ pc = "idle" /\ dry = FALSE /\ phase = 1 /\ todo = {} /\ at \in Source
  /\ page = {} /\ batch = {} /\ raw = {} /\ runs = 0
  /\ got = {} /\ tried = {} /\ failed = {} /\ cut = {} /\ dropped = {} /\ reported = {}

\* A source publishes a post, whatever the run is doing.
Publish(s) ==
  /\ published[s] < Last
  /\ published' = [published EXCEPT ![s] = @ + 1]
  /\ UNCHANGED <<ledger, pc, run, runs, past>>

SourcesOf(n) == {s \in Source : PhaseOf[s] = n}

StartRun ==
  /\ pc = "idle" /\ runs < MaxRuns
  /\ runs' = runs + 1 /\ pc' = "fetch" /\ dry' \in BOOLEAN /\ todo' = SourcesOf(phase)
  /\ UNCHANGED <<published, ledger, phase, at, hands, got, tried, failed, past>>

\* mutant: since_id is not passed on.
WholePage(s) == {s} \X {i \in 1..published[s] : i + PageSize > published[s]}

\* The newest posts after the mark, one page of them.
Page(s) == {s} \X {i \in 1..published[s] : i > highWater[s] /\ i + PageSize > published[s]}

\* latest_seen_id, then the request.
Fetch(s) ==
  /\ pc = "fetch" /\ s \in todo /\ "state" \notin torn
  /\ at' = s /\ page' = Page(s) /\ got' = got \cup Page(s)
  /\ tried' = tried \cup {s} /\ todo' = todo \ {s} /\ pc' = "remember"
  /\ UNCHANGED <<published, ledger, dry, phase, batch, raw, failed, runs, past>>

\* What is lost if the run forgets what it holds: a dry run set no mark on it.
Marked(posts) == IF dry THEN {} ELSE posts

\* The accounts a user follows, and the snapshot, are looked up before the state is read.
LooksUp == phase \in {3, 5}

\* mutant: the error ends the collection, not only the phase.
AllFail(s) ==
  /\ pc = "fetch" /\ s \in todo /\ ("state" \notin torn \/ LooksUp)
  /\ tried' = tried \cup {s} /\ failed' = failed \cup {phase} /\ todo' = {} /\ phase' = LastPhase
  /\ dropped' = dropped \cup Marked(batch) /\ batch' = {}
  /\ UNCHANGED <<published, ledger, pc, dry, at, page, raw, got, runs, cut, reported>>

\* XApiError: the phase is over, and what it had fetched so far is forgotten.
FetchFails(s) ==
  /\ pc = "fetch" /\ s \in todo /\ ("state" \notin torn \/ LooksUp)
  /\ tried' = tried \cup {s} /\ failed' = failed \cup {phase} /\ todo' = {}
  /\ dropped' = dropped \cup Marked(batch) /\ batch' = {}
  /\ UNCHANGED <<published, ledger, pc, dry, phase, at, page, raw, got, runs, cut, reported>>

\* mutant: a dry run leaves its marks too.
AlwaysRemembers == page # {}
Remembers == ~dry /\ page # {}
\* mutant: the mark is the next post to ask for.
NextToCome == {<<p[1], p[2] + 1>> : p \in {q \in page : \A r \in page : r[2] <= q[2]}}
Newest == {p \in page : \A q \in page : q[2] <= p[2]}

\* remember_source_highwater: the mark jumps to the newest post of the page.
Remember ==
  /\ pc = "remember" /\ pc' = "fetch"
  /\ \/ ~Remembers /\ UNCHANGED <<highWater, cut>>
     \/ /\ Remembers
        /\ \E top \in Newest :
             /\ highWater' = [highWater EXCEPT ![at] = top[2]]
             /\ cut' = cut \cup (({at} \X (highWater[at] + 1..top[2])) \ page)
  /\ batch' = batch \cup page /\ page' = {}
  /\ UNCHANGED <<published, saved, seen, torn, dry, phase, todo, at, raw, got, tried,
                 failed, runs, dropped, reported>>

\* mutant: a run with errors goes straight to its digest.
UnlessErrors == IF dry \/ failed # {} THEN "digest" ELSE "save"
\* A dry run skips what writes the ledger.
AfterFetching == IF dry THEN "digest" ELSE "save"

\* The posts of a phase are kept when the phase is through.
PhaseDone ==
  /\ pc = "fetch" /\ todo = {}
  /\ raw' = raw \cup batch /\ batch' = {}
  /\ IF phase < LastPhase
     THEN phase' = phase + 1 /\ todo' = SourcesOf(phase + 1) /\ UNCHANGED pc
     ELSE pc' = AfterFetching /\ UNCHANGED <<phase, todo>>
  /\ UNCHANGED <<published, ledger, dry, at, page, got, tried, failed, runs, past>>

Save ==
  /\ pc = "save" /\ "posts" \notin torn
  /\ saved' = saved \cup raw /\ pc' = "mark"
  /\ UNCHANGED <<published, highWater, seen, torn, run, runs, past>>

\* mark_seen
Mark ==
  /\ pc = "mark" /\ "seen" \notin torn
  /\ seen' = seen \cup raw /\ pc' = "persist"
  /\ UNCHANGED <<published, highWater, saved, torn, run, runs, past>>

\* mutant: it writes the empty map it would write on a fresh loop.
PersistFresh ==
  /\ pc = "persist" /\ "state" \notin torn
  /\ highWater' = [s \in Source |-> 0] /\ pc' = "digest"
  /\ UNCHANGED <<published, saved, seen, torn, run, runs, past>>

\* persist_source_state: what is in the file is written again.
Persist ==
  /\ pc = "persist" /\ "state" \notin torn
  /\ highWater' = highWater /\ pc' = "digest"
  /\ UNCHANGED <<published, saved, seen, torn, run, runs, past>>

\* The process is over, and what it held is gone.
Ends ==
  /\ pc' = "idle" /\ dry' = FALSE /\ phase' = 1 /\ todo' = {}
  /\ page' = {} /\ batch' = {} /\ raw' = {}
  /\ got' = {} /\ tried' = {} /\ failed' = {}
  /\ UNCHANGED <<published, highWater, seen, at, runs, cut>>

\* The digest covers the posts of this run, in a dry run too.
WriteDigest ==
  /\ pc = "digest"
  /\ reported' = reported \cup Marked(raw)
  /\ Ends
  /\ UNCHANGED <<saved, torn, dropped>>

\* It ends before its digest is written.
GiveUp(gone) ==
  /\ dropped' = dropped \cup Marked(batch \cup raw) \cup gone
  /\ Ends
  /\ UNCHANGED reported

\* mutant: it is read again until it parses.
ReadsAgain ==
  /\ pc \in DOMAIN Reads /\ Reads[pc] \in torn
  /\ pc = "fetch" => todo # {}
  /\ UNCHANGED vars
\* A file that does not parse ends the run: JSONDecodeError is no XApiError.
ReadsTorn ==
  /\ pc \in DOMAIN Reads /\ Reads[pc] \in torn
  /\ pc = "fetch" => todo # {}
  /\ GiveUp({})
  /\ UNCHANGED <<saved, torn>>

\* The JSON files the run may be writing: opened for writing, a file is empty at first.
Writing ==
  {f \in File \ torn :
     \/ f = "state" /\ (pc = "persist" \/ (pc = "remember" /\ Remembers))
     \/ f = "seen" /\ pc = "mark"}

\* It is killed, or fails on something nobody catches (a timed-out read, a full disk).
Dies ==
  /\ pc # "idle"
  /\ GiveUp({})
  /\ \E broken \in SUBSET Writing : torn' = torn \cup broken
  /\ UNCHANGED saved

\* posts.jsonl is one record a line: what was written of it before the death is kept,
\* old records first, and reads well if it ends with a line.
DiesSaving ==
  /\ pc = "save" /\ "posts" \notin torn
  /\ \E kept \in SUBSET (saved \cup raw) :
       /\ kept \ saved # {} => saved \subseteq kept
       /\ saved' = kept /\ GiveUp(saved \ kept)
  /\ torn' \in {torn, torn \cup {"posts"}}

\* What the run does by itself.
Advance ==
  \/ \E s \in Source : Fetch(s) \/ FetchFails(s)
  \/ Remember \/ PhaseDone \/ Save \/ Mark \/ Persist \/ WriteDigest \/ ReadsTorn

Step == Advance \/ Dies \/ DiesSaving

Next == (\E s \in Source : Publish(s)) \/ StartRun \/ Step

Spec == Init /\ [][Next]_vars

\* A request times out and is tried three times, so a run keeps going; it need not die.
FairSpec == Spec /\ WF_vars(Advance)

Below == {p \in Post : p[2] <= highWater[p[1]]}

\* Safety, what the next run will not ask for again (cli.py:319-333 against run, 116-121):
\* a post at or below the mark of its source is in the post store, or in the hands of the
\* run, or was passed over by a page that was full, or was in hand, or in the file being
\* written, when a run died or the phase of its source failed.
Accounted == Below \subseteq saved \cup batch \cup raw \cup cut \cup dropped

\* Safety, run (cli.py:116-121): what a digest reports is in the post store and noted as
\* seen, no mark is short of it, and no file of the ledger is in pieces under it.
DigestIsBacked ==
  pc = "digest" /\ ~dry => torn = {} /\ raw \subseteq saved \cap seen \cap Below

\* Safety, the marks across runs (store.py:122-136): no two runs report the same post of
\* a source, whichever runs failed, died or were dry in between.
NeverReportedTwice == pc = "digest" /\ ~dry => raw \cap reported = {}

\* Safety, _collect_raw_posts (cli.py:242-252): when the posts are saved, every source of a
\* phase that did not fail has been asked, and every post it returned is among them,
\* whatever happened to the other phases.
PhasesIndependent ==
  pc = "save" => \A s \in Source : PhaseOf[s] \notin failed =>
                    s \in tried /\ {p \in got : p[1] = s} \subseteq raw

\* Action property, store.py:128-175: no mark moves back and nothing noted as seen is
\* forgotten; a saved post goes only when a run dies writing the file.
Grows ==
  /\ \A s \in Source : highWater'[s] >= highWater[s]
  /\ seen \subseteq seen'
  /\ saved \subseteq saved' \/ (pc = "save" /\ pc' = "idle")
LedgerGrows == [][Grows]_vars

\* Liveness, run (cli.py:94-150): every run ends, whatever its requests and files do.
RunEnds == (pc # "idle") ~> (pc = "idle")
=============================================================================
