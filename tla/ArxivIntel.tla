----------------------------- MODULE ArxivIntel -----------------------------
(***************************************************************************)
(* The arXiv intelligence loop: fetch the newest papers, rank those not    *)
(* seen before, merge all of them into the paper store, note them as seen, *)
(* and write a digest of the best under three pairs of names               *)
(* (src/src/loopcraft/research_intel/arxiv/cli.py run, store.py,           *)
(* client.py, jsonl.py).                                                   *)
(*                                                                         *)
(* A run is one call of the command: the agent of a loop run makes one and *)
(* may make another, an operator a third.  Those within one loop run, or   *)
(* by hand within one second, share the stamp that names their files under *)
(* history/ (config.py resolve_run_stamps).                                *)
(*                                                                         *)
(* Runs may overlap, and all files are rewritten in place without a lock.  *)
(* One that is open for that is empty or a part of itself until it is      *)
(* closed, and stays so if its writer dies; one that two had open at a     *)
(* time may end in pieces of both.  Papers are numbered in the order of    *)
(* their submission; a new version of one has a new id, hence a new number.*)
(***************************************************************************)
EXTENDS Naturals, FiniteSets

CONSTANTS
  Run,        \* the runs there will be
  Stamp,      \* what names the files of a run under history/
  Last,       \* bound: how many papers are submitted
  PageSize,   \* ranking.max_results: the papers one request returns
  TopPapers,  \* ranking.top_papers: the papers a digest presents
  NoRun       \* the author of a digest file that is missing, open or in pieces

ASSUME BoundAssumption == Last \in Nat /\ PageSize \in Nat /\ TopPapers \in Nat
ASSUME NoRunAssumption == NoRun \notin Run
ASSUME StampAssumption == Stamp \cap {"daily", "latest"} = {}

Paper == 1..Last
File == {"papers", "seen"}
Suffix == {"md", "json"}
Name == {"latest"} \cup Stamp
\* mutant: the latest digest is written before the history.
LatestFirst == << <<"daily", "md">>, <<"daily", "json">>, <<"latest", "md">>,
                  <<"latest", "json">>, <<"history", "md">>, <<"history", "json">> >>
\* The digest files in the order they are written: the day's, the run's own, the latest.
\* What the day's hold is not told apart.
Writes == << <<"daily", "md">>, <<"daily", "json">>, <<"history", "md">>,
             <<"history", "json">>, <<"latest", "md">>, <<"latest", "json">> >>

VARIABLES
  published,   \* how many papers have been submitted
  papers,      \* papers.jsonl
  seen,        \* seen.json, or what it held before it was torn
  torn,        \* the files that do not parse, being rewritten or left so by a death
  shelf,       \* digest file -> the run whose digest it holds
  stamp,       \* run -> its stamp
  pc,          \* where each run is
  dry, again,  \* its flags --dry-run and --include-seen
  raw,         \* the papers it fetched
  top,         \* the papers its digest presents
  base,        \* what it read of the file it rewrites
  written,     \* how many of the digest files it has written
  mixed,       \* the runs whose file another has had open at the same time
  alone,       \* ghost: no other run was under way at any time of it
  passedOver,  \* ghost: papers the ranking of a real run left out
  overwritten, \* ghost: papers the rewrites of overlapping runs took out of the store
  truncated,   \* ghost: papers a death while rewriting took out of the store
  forgotten    \* ghost: ids the rewrites of overlapping runs took out of the seen set

ledger == <<papers, seen, torn>>
digests == <<shelf, stamp>>
hands == <<dry, again, raw, top, base, written>>
losses == <<overwritten, truncated, forgotten>>
ghosts == <<alone, passedOver, losses>>
vars == <<published, ledger, digests, pc, hands, mixed, ghosts>>

\* The points of a run, in order, but for the first and the last.
Under == {"fetch", "rank", "merge", "save", "saving", "look", "mark", "marking", "digest"}

TypeOK ==
  /\ published \in 0..Last /\ papers \subseteq Paper /\ seen \subseteq Paper
  /\ torn \subseteq File
  /\ shelf \in [Name \X Suffix -> Run \cup {NoRun}] /\ stamp \in [Run -> Stamp]
  /\ pc \in [Run -> Under \cup {"waiting", "over"}]
  /\ dry \in [Run -> BOOLEAN] /\ again \in [Run -> BOOLEAN] /\ alone \in [Run -> BOOLEAN]
  /\ raw \in [Run -> SUBSET Paper] /\ top \in [Run -> SUBSET Paper]
  /\ base \in [Run -> SUBSET Paper] /\ written \in [Run -> 0..6]
  /\ mixed \subseteq Run /\ passedOver \subseteq Paper
  /\ overwritten \subseteq Paper /\ truncated \subseteq Paper /\ forgotten \subseteq Paper

Init ==
  /\ published = 0 /\ papers = {} /\ seen = {} /\ torn = {}
  /\ shelf = [f \in Name \X Suffix |-> NoRun] /\ stamp \in [Run -> Stamp]
  /\ pc = [r \in Run |-> "waiting"]
  /\ dry = [r \in Run |-> FALSE] /\ again = [r \in Run |-> FALSE]
  /\ raw = [r \in Run |-> {}] /\ top = [r \in Run |-> {}] /\ base = [r \in Run |-> {}]
  /\ written = [r \in Run |-> 0] /\ mixed = {} /\ alone = [r \in Run |-> TRUE]
  /\ passedOver = {} /\ overwritten = {} /\ truncated = {} /\ forgotten = {}

Publish ==
  /\ published < Last /\ published' = published + 1
  /\ UNCHANGED <<ledger, digests, pc, hands, mixed, ghosts>>

GoTo(r, point) == pc' = [pc EXCEPT ![r] = point]
At(point) == {r \in Run : pc[r] = point}
Active == {r \in Run : pc[r] \in Under}

\* The agent of a loop run starts it, or somebody by hand, with or without its flags.
Start(r) ==
  /\ pc[r] = "waiting" /\ GoTo(r, "fetch")
  /\ \E d, i \in BOOLEAN : dry' = [dry EXCEPT ![r] = d] /\ again' = [again EXCEPT ![r] = i]
  /\ alone' = [q \in Run |-> alone[q] /\ q \notin Active /\ (q = r => Active = {})]
  /\ UNCHANGED <<published, ledger, digests, raw, top, base, written, mixed, passedOver, losses>>

\* mutant: entries are counted from nought.
PageFromNought == {i \in 0..published : i + PageSize > published}
\* The newest papers, one page of them, whatever was fetched before.
Page == {i \in 1..published : i + PageSize > published}

\* search_recent; on an ArxivApiError the run goes on with no papers.
Fetch(r) ==
  /\ pc[r] = "fetch" /\ GoTo(r, "rank")
  /\ \E got \in {Page, {}} : raw' = [raw EXCEPT ![r] = got]
  /\ UNCHANGED <<published, ledger, digests, dry, again, top, base, written, mixed, ghosts>>

\* mutant: seen papers are candidates, flag or not.
EveryPaper(r) == raw[r]
\* The candidates of the ranking.
Fresh(r) == IF again[r] THEN raw[r] ELSE raw[r] \ seen

\* mutant: a dry run writes the ledger too.
AlwaysSaves(r) == "merge"
\* A dry run skips what writes the ledger.
AfterRanking(r) == IF dry[r] THEN "digest" ELSE "merge"

\* What a run presents or leaves out counts if it is a real one.
Real(r, some) == IF dry[r] THEN {} ELSE some

\* seen_ids and rank_papers: some score too low, and only the best fit the digest.
Rank(r) ==
  /\ pc[r] = "rank" /\ (again[r] \/ "seen" \notin torn)
  /\ GoTo(r, AfterRanking(r))
  /\ \E best \in SUBSET Fresh(r) :
       /\ Cardinality(best) <= TopPapers
       /\ top' = [top EXCEPT ![r] = best]
       /\ passedOver' = passedOver \cup Real(r, Fresh(r) \ best)
  /\ UNCHANGED <<published, ledger, digests, dry, again, raw, base, written, mixed, alone,
                 losses>>

\* What a run makes of the file it read.
Merged(r) == base[r] \cup raw[r]

\* mutant: a store that does not parse is begun anew.
BeginsAnew(r) ==
  /\ pc[r] = "merge" /\ GoTo(r, "save")
  /\ base' = [base EXCEPT ![r] = IF "papers" \in torn THEN {} ELSE papers]
  /\ UNCHANGED <<published, ledger, digests, dry, again, raw, top, written, mixed, ghosts>>

\* save_papers, read_jsonl: what the store holds at that moment.
ReadPapers(r) ==
  /\ pc[r] = "merge" /\ "papers" \notin torn /\ GoTo(r, "save")
  /\ base' = [base EXCEPT ![r] = papers]
  /\ UNCHANGED <<published, ledger, digests, dry, again, raw, top, written, mixed, ghosts>>

\* A run opens a file that others may have open.
Opened(r, others) == mixed' = IF others = {} THEN mixed ELSE mixed \cup others \cup {r}

\* write_jsonl opens the file, which empties it, and fills it from the front, old records
\* first: a reader sees a part of it that may end within a record.
OpenPapers(r) ==
  /\ pc[r] = "save" /\ GoTo(r, "saving") /\ Opened(r, At("saving"))
  /\ \E part \in SUBSET Merged(r) :
       /\ part \subseteq base[r] \/ base[r] \subseteq part
       /\ papers' = part
  /\ torn' \in {torn \ {"papers"}, torn \cup {"papers"}}
  /\ overwritten' = overwritten \cup (papers \ Merged(r))
  /\ UNCHANGED <<published, seen, digests, hands, alone, passedOver, truncated, forgotten>>

\* What the store may hold when a run closes it that others have had open: what it held, or
\* what one of them wrote.
Drafts == {papers} \cup {Merged(q) : q \in At("saving")}

\* What two runs wrote over each other is one's, with or without some of the other's after
\* it, and may not parse.
ClosePapers(r) ==
  /\ pc[r] = "saving" /\ GoTo(r, "look") /\ mixed' = mixed \ {r}
  /\ IF r \in mixed
     THEN /\ \E first \in Drafts, rest \in SUBSET UNION Drafts : papers' = first \cup rest
          /\ torn' \in {torn \ {"papers"}, torn \cup {"papers"}}
     ELSE papers' = Merged(r) /\ torn' = torn \ {"papers"}
  /\ overwritten' = overwritten \cup ((papers \cup Merged(r)) \ papers')
  /\ UNCHANGED <<published, seen, digests, hands, alone, passedOver, truncated, forgotten>>

\* mark_seen reads what is seen by now.
ReadSeen(r) ==
  /\ pc[r] = "look" /\ "seen" \notin torn /\ GoTo(r, "mark")
  /\ base' = [base EXCEPT ![r] = seen]
  /\ UNCHANGED <<published, ledger, digests, dry, again, raw, top, written, mixed, ghosts>>

\* A part of a JSON list does not parse.
OpenSeen(r) ==
  /\ pc[r] = "mark" /\ GoTo(r, "marking") /\ Opened(r, At("marking"))
  /\ torn' = torn \cup {"seen"}
  /\ UNCHANGED <<published, papers, seen, digests, hands, ghosts>>

\* Of what two wrote over each other, one's is left, or the pieces of both.
CloseSeen(r) ==
  /\ pc[r] = "marking" /\ GoTo(r, "digest") /\ mixed' = mixed \ {r}
  /\ IF r \in mixed
     THEN \/ seen' \in {Merged(q) : q \in At("marking")} /\ torn' = torn \ {"seen"}
          \/ seen' = seen /\ torn' \in {torn, torn \cup {"seen"}}
     ELSE seen' = Merged(r) /\ torn' = torn \ {"seen"}
  /\ forgotten' = forgotten \cup ((seen \cup Merged(r)) \ seen')
  /\ UNCHANGED <<published, papers, digests, hands, alone, passedOver, overwritten, truncated>>

\* The process is over, and what it held is gone but for its digest.
Leaves(r) ==
  /\ GoTo(r, "over") /\ again' = [again EXCEPT ![r] = FALSE]
  /\ raw' = [raw EXCEPT ![r] = {}] /\ base' = [base EXCEPT ![r] = {}]

\* The digest file a run writes next.
NextFile(r) ==
  LET next == Writes[written[r] + 1] IN
    IF next[1] = "history" THEN <<stamp[r], next[2]>> ELSE next

\* Those who are about to write the same file, and may have opened it.
Beside(r) == {q \in At("digest") \ {r} : NextFile(q) = NextFile(r)}

\* What a digest file may hold when a run has closed it: if another had it open as well, one's
\* digest or the pieces of both.
Authors(r) == {r} \cup IF r \in mixed THEN {shelf[NextFile(r)], NoRun} ELSE {}

\* write_digest, one file, opened, written and closed: nobody reads it meanwhile, but who
\* is beside may have it open as well.  A run that failed to fetch writes one without papers.
WriteDigest(r) ==
  /\ pc[r] = "digest"
  /\ IF NextFile(r) \in DOMAIN shelf
     THEN /\ \E author \in Authors(r) : shelf' = [shelf EXCEPT ![NextFile(r)] = author]
          /\ mixed' = (mixed \ {r}) \cup Beside(r)
     ELSE UNCHANGED <<shelf, mixed>>
  /\ written' = [written EXCEPT ![r] = @ + 1]
  /\ IF written[r] = 5 THEN Leaves(r) ELSE UNCHANGED <<pc, again, raw, base>>
  /\ UNCHANGED <<published, ledger, stamp, dry, top, ghosts>>

\* The file each point of a run reads.
Reads(r) ==
  CASE pc[r] = "rank" /\ ~again[r] -> {"seen"}
    [] pc[r] = "merge" -> {"papers"}
    [] pc[r] = "look" -> {"seen"}
    [] OTHER -> {}

\* It ends before it is done.
Stops(r) ==
  /\ Leaves(r)
  /\ UNCHANGED <<published, ledger, stamp, dry, top, written, alone, passedOver, overwritten,
                 forgotten>>

\* A file that does not parse ends the run: nobody catches a JSONDecodeError.
ReadsTorn(r) ==
  /\ Reads(r) \cap torn # {} /\ Stops(r)
  /\ UNCHANGED <<shelf, mixed, truncated>>

\* It is killed, or fails on something nobody catches: a response that times out while it
\* is read, a feed that does not parse, a full disk.  The file it was writing is cut short.
Dies(r) ==
  /\ pc[r] \in Under /\ Stops(r)
  /\ truncated' = truncated \cup (IF pc[r] = "saving" THEN Merged(r) \ papers ELSE {})
  /\ \/ shelf' = shelf /\ mixed' = mixed \ {r}
     \/ /\ pc[r] = "digest" /\ NextFile(r) \in DOMAIN shelf
        /\ shelf' = [shelf EXCEPT ![NextFile(r)] = NoRun]
        /\ mixed' = (mixed \ {r}) \cup Beside(r)

\* What a run does by itself.
Advance(r) ==
  \/ Fetch(r) \/ Rank(r) \/ ReadPapers(r) \/ OpenPapers(r) \/ ClosePapers(r)
  \/ ReadSeen(r) \/ OpenSeen(r) \/ CloseSeen(r) \/ WriteDigest(r) \/ ReadsTorn(r)

Next == Publish \/ \E r \in Run : Start(r) \/ Advance(r) \/ Dies(r)

Spec == Init /\ [][Next]_vars

-----------------------------------------------------------------------------
Pending == {p \in Paper : \E r \in Run : pc[r] = "saving" /\ p \in Merged(r)}
Lost == overwritten \cup truncated

\* Safety, run (cli.py:88-90): a paper noted as seen is in the store or about to be written
\* there, or a rewrite took it out: that of a run that overlapped with another, or one cut
\* short by a death.
SeenIsSaved ==
  /\ seen \subseteq papers \cup Pending \cup Lost
  /\ (\A r \in Run : alone[r]) => overwritten = {}

\* A run has written its digest to history/.
Presented(r) == written[r] >= 4
\* Its digest is what the two files under history/ hold that have its stamp.
Archived(r) == \A s \in Suffix : shelf[<<stamp[r], s>>] = r
\* Another run with its stamp has got as far as writing these files.
Shared(r) == \E q \in Run \ {r} : stamp[q] = stamp[r] /\ written[q] >= 2

\* Safety, run and write_digest (cli.py:79-109, store.py:68-72): a paper noted as seen, which
\* no later run presents, was ranked and left out, or is in the digest of a real run: one
\* that history/ holds, unless the run has not written it yet, or died before, or another
\* run with its stamp wrote it over.
SeenIsAccounted ==
  \A p \in seen \ passedOver :
    \E r \in Run : p \in Real(r, top[r]) /\ (~Presented(r) \/ Archived(r) \/ Shared(r))

\* The papers of real digests written to history/.
Reported == {p \in Paper : \E r \in Run : Presented(r) /\ p \in Real(r, top[r])}

\* Safety, the seen set across runs (cli.py:80-82, store.py:89-103): a run that had the
\* ledger to itself presents no paper that a real digest before it did, unless asked to or
\* unless runs that overlapped lost the note of it.
NeverReportedTwice ==
  /\ \A r \in Run : pc[r] \in Under /\ alone[r] /\ ~again[r] /\ ~Presented(r)
                      => top[r] \cap Reported \subseteq forgotten
  /\ (\A r \in Run : alone[r]) => forgotten = {}

\* Safety, write_digest (store.py:65-74): whichever runs overlap or die, a latest file that
\* is whole is the digest of a run that history/ holds whole, unless another run with its
\* stamp wrote it over.
LatestInHistory ==
  \A s \in Suffix : LET r == shelf[<<"latest", s>>] IN r \in Run => Archived(r) \/ Shared(r)
=============================================================================
