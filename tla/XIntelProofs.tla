---------------------------- MODULE XIntelProofs ----------------------------
(***************************************************************************)
(* Proofs about XIntel, for any sources in any phases, page size and       *)
(* number of posts and runs.  What a run holds depends on its phase, and   *)
(* what a digest may say on the order in which the files were read and     *)
(* written before it: Inv says so for every point of the run.              *)
(***************************************************************************)
EXTENDS XIntel, FiniteSetTheorems, NaturalsInduction, WellFoundedInduction, TLAPS

USE SourceAssumption, BoundAssumption

\* Where the hands of the run are empty, and whose posts they hold.
HandsInv ==
  /\ pc # "remember" => page = {}
  /\ pc = "remember" =>
       page \subseteq {at} \X (highWater[at] + 1..Last) /\ PhaseOf[at] = phase
  /\ pc \notin {"fetch", "remember"} => batch = {}
  /\ pc = "idle" => raw = {} /\ got = {} /\ phase = 1 /\ tried = {} /\ failed = {}
  /\ pc \in {"save", "mark", "persist"} => ~dry
  /\ \A p \in batch : PhaseOf[p[1]] = phase
  /\ todo \subseteq SourcesOf(phase)

\* Every marked post is somewhere, or gone for one of the reasons there are.
MarksInv ==
  /\ Below \subseteq saved \cup cut \cup dropped \cup Marked(batch \cup raw)
  /\ Marked(batch \cup raw) \subseteq Below
  /\ reported \subseteq Below
  /\ Marked(batch \cup raw) \cap reported = {}

\* What each written file makes true.
FilesInv ==
  /\ pc \in {"mark", "persist", "digest"} /\ ~dry =>
       raw \subseteq saved /\ "posts" \notin torn
  /\ pc \in {"persist", "digest"} /\ ~dry => raw \subseteq seen /\ "seen" \notin torn
  /\ pc = "digest" /\ ~dry => "state" \notin torn

\* How far the collection is.
PhasesInv ==
  /\ pc \in {"fetch", "remember"} => \A s \in Source :
       PhaseOf[s] < phase \/ (PhaseOf[s] = phase /\ s \notin todo)
         => s \in tried \/ PhaseOf[s] \in failed
  /\ pc = "save" => \A s \in Source : s \in tried \/ PhaseOf[s] \in failed
  /\ \A p \in got : PhaseOf[p[1]] \notin failed => p \in page \cup batch \cup raw

Inv == TypeOK /\ HandsInv /\ MarksInv /\ FilesInv /\ PhasesInv

USE DEF vars, ledger, hands, run, past, File, Post, Reads

\* How every run ends is the same as far as the types go.
LEMMA EndsTyped ==
  ASSUME TypeOK, Ends, saved' \subseteq Post, torn' \subseteq File, dropped' \subseteq Post,
         reported' \subseteq Post
  PROVE  TypeOK'
<1>1. phase' \in 1..LastPhase /\ pc' \in {"idle", "remember", "digest"} \cup DOMAIN Reads
  BY DEF Ends, LastPhase
<1>2. dry' \in BOOLEAN /\ todo' \subseteq Source /\ at' \in Source
  BY DEF Ends, TypeOK
<1>3. page' = {} /\ batch' = {} /\ raw' = {} /\ got' = {} /\ tried' = {} /\ failed' = {}
  BY DEF Ends
<1>4. UNCHANGED <<published, highWater, seen, runs, cut>>
  BY DEF Ends
<1> QED BY <1>1, <1>2, <1>3, <1>4 DEF TypeOK

\* The types are kept.
LEMMA TypeOKKept == ASSUME TypeOK, [Next]_vars PROVE TypeOK'
<1>1. ASSUME NEW s \in Source, Publish(s) PROVE TypeOK'
  BY <1>1 DEF LastPhase, Writing, TypeOK, Publish
<1>2. ASSUME StartRun PROVE TypeOK'
  BY <1>2 DEF LastPhase, Writing, TypeOK, StartRun, SourcesOf
<1>3. ASSUME NEW s \in Source, Fetch(s) PROVE TypeOK'
  BY <1>3 DEF LastPhase, Writing, TypeOK, Fetch, Page
<1>4. ASSUME NEW s \in Source, FetchFails(s) PROVE TypeOK'
  BY <1>4 DEF LastPhase, Writing, TypeOK, FetchFails, Marked
<1>5. ASSUME Remember PROVE TypeOK'
  BY <1>5 DEF LastPhase, Writing, TypeOK, Remember, Newest, Remembers
<1>6. ASSUME PhaseDone PROVE TypeOK'
  BY <1>6 DEF LastPhase, Writing, TypeOK, PhaseDone, AfterFetching, SourcesOf
<1>7. ASSUME Save PROVE TypeOK'
  BY <1>7 DEF LastPhase, Writing, TypeOK, Save
<1>8. ASSUME Mark PROVE TypeOK'
  BY <1>8 DEF LastPhase, Writing, TypeOK, Mark
<1>9. ASSUME Persist PROVE TypeOK'
  BY <1>9 DEF LastPhase, Writing, TypeOK, Persist
<1>10. ASSUME WriteDigest PROVE TypeOK'
  <2>1. saved' \subseteq Post
    BY <1>10 DEF Writing, TypeOK, WriteDigest, Marked
  <2>2. torn' \subseteq File
    BY <1>10 DEF Writing, TypeOK, WriteDigest, Marked
  <2>3. dropped' \subseteq Post
    BY <1>10 DEF Writing, TypeOK, WriteDigest, Marked
  <2>4. reported' \subseteq Post
    BY <1>10 DEF Writing, TypeOK, WriteDigest, Marked
  <2>5. Ends
    BY <1>10 DEF WriteDigest
  <2> QED BY <2>1, <2>2, <2>3, <2>4, <2>5, EndsTyped
<1>11. ASSUME ReadsTorn PROVE TypeOK'
  <2>1. saved' \subseteq Post
    BY <1>11 DEF Writing, TypeOK, ReadsTorn, GiveUp, Marked
  <2>2. torn' \subseteq File
    BY <1>11 DEF Writing, TypeOK, ReadsTorn, GiveUp, Marked
  <2>3. dropped' \subseteq Post
    BY <1>11 DEF Writing, TypeOK, ReadsTorn, GiveUp, Marked
  <2>4. reported' \subseteq Post
    BY <1>11 DEF Writing, TypeOK, ReadsTorn, GiveUp, Marked
  <2>5. Ends
    BY <1>11 DEF ReadsTorn, GiveUp
  <2> QED BY <2>1, <2>2, <2>3, <2>4, <2>5, EndsTyped
<1>12. ASSUME Dies PROVE TypeOK'
  <2>1. saved' \subseteq Post
    BY <1>12 DEF Writing, TypeOK, Dies, GiveUp, Marked
  <2>2. torn' \subseteq File
    BY <1>12 DEF Writing, TypeOK, Dies, GiveUp, Marked
  <2>3. dropped' \subseteq Post
    BY <1>12 DEF Writing, TypeOK, Dies, GiveUp, Marked
  <2>4. reported' \subseteq Post
    BY <1>12 DEF Writing, TypeOK, Dies, GiveUp, Marked
  <2>5. Ends
    BY <1>12 DEF Dies, GiveUp
  <2> QED BY <2>1, <2>2, <2>3, <2>4, <2>5, EndsTyped
<1>13. ASSUME DiesSaving PROVE TypeOK'
  <2>1. saved' \subseteq Post
    BY <1>13 DEF Writing, TypeOK, DiesSaving, GiveUp, Marked
  <2>2. torn' \subseteq File
    BY <1>13 DEF Writing, TypeOK, DiesSaving, GiveUp, Marked
  <2>3. dropped' \subseteq Post
    BY <1>13 DEF Writing, TypeOK, DiesSaving, GiveUp, Marked
  <2>4. reported' \subseteq Post
    BY <1>13 DEF Writing, TypeOK, DiesSaving, GiveUp, Marked
  <2>5. Ends
    BY <1>13 DEF DiesSaving, GiveUp
  <2> QED BY <2>1, <2>2, <2>3, <2>4, <2>5, EndsTyped
<1>14. ASSUME UNCHANGED vars PROVE TypeOK'
  BY <1>14 DEF LastPhase, Writing, TypeOK
<1> QED BY <1>1, <1>2, <1>3, <1>4, <1>5, <1>6, <1>7, <1>8, <1>9, <1>10, <1>11, <1>12,
    <1>13, <1>14 DEF Next, Step, Advance

\* What the run holds is of the phase it fetches.
LEMMA HandsInvKept == ASSUME TypeOK, HandsInv, [Next]_vars PROVE HandsInv'
<1>1. ASSUME NEW s \in Source, Publish(s) PROVE HandsInv'
  BY <1>1 DEF TypeOK, SourcesOf, HandsInv, Publish
<1>2. ASSUME StartRun PROVE HandsInv'
  BY <1>2 DEF TypeOK, SourcesOf, HandsInv, StartRun
<1>3. ASSUME NEW s \in Source, Fetch(s) PROVE HandsInv'
  BY <1>3 DEF TypeOK, SourcesOf, HandsInv, Fetch, Page
<1>4. ASSUME NEW s \in Source, FetchFails(s) PROVE HandsInv'
  BY <1>4 DEF TypeOK, SourcesOf, HandsInv, FetchFails
<1>5. ASSUME Remember PROVE HandsInv'
  BY <1>5 DEF TypeOK, SourcesOf, HandsInv, Remember, Newest, Remembers
<1>6. ASSUME PhaseDone PROVE HandsInv'
  BY <1>6 DEF TypeOK, SourcesOf, HandsInv, PhaseDone, AfterFetching
<1>7. ASSUME Save PROVE HandsInv'
  BY <1>7 DEF TypeOK, SourcesOf, HandsInv, Save
<1>8. ASSUME Mark PROVE HandsInv'
  BY <1>8 DEF TypeOK, SourcesOf, HandsInv, Mark
<1>9. ASSUME Persist PROVE HandsInv'
  BY <1>9 DEF TypeOK, SourcesOf, HandsInv, Persist
<1>10. ASSUME WriteDigest PROVE HandsInv'
  BY <1>10 DEF TypeOK, SourcesOf, HandsInv, WriteDigest, Ends
<1>11. ASSUME ReadsTorn PROVE HandsInv'
  BY <1>11 DEF TypeOK, SourcesOf, HandsInv, ReadsTorn, GiveUp, Ends
<1>12. ASSUME Dies PROVE HandsInv'
  BY <1>12 DEF TypeOK, SourcesOf, HandsInv, Dies, GiveUp, Ends
<1>13. ASSUME DiesSaving PROVE HandsInv'
  BY <1>13 DEF TypeOK, SourcesOf, HandsInv, DiesSaving, GiveUp, Ends
<1>14. ASSUME UNCHANGED vars PROVE HandsInv'
  BY <1>14 DEF TypeOK, SourcesOf, HandsInv
<1> QED BY <1>1, <1>2, <1>3, <1>4, <1>5, <1>6, <1>7, <1>8, <1>9, <1>10, <1>11, <1>12,
    <1>13, <1>14 DEF Next, Step, Advance

\* No marked post goes missing.
LEMMA MarksInvKept ==
  ASSUME TypeOK, HandsInv, MarksInv, FilesInv, [Next]_vars
  PROVE  MarksInv'
<1>1. ASSUME NEW s \in Source, Publish(s) PROVE MarksInv'
  BY <1>1 DEF TypeOK, HandsInv, MarksInv, FilesInv, Below, Marked, Publish
<1>2. ASSUME StartRun PROVE MarksInv'
  BY <1>2 DEF TypeOK, HandsInv, MarksInv, FilesInv, Below, Marked, StartRun, SourcesOf
<1>3. ASSUME NEW s \in Source, Fetch(s) PROVE MarksInv'
  BY <1>3 DEF TypeOK, HandsInv, MarksInv, FilesInv, Below, Marked, Fetch, Page
<1>4. ASSUME NEW s \in Source, FetchFails(s) PROVE MarksInv'
  BY <1>4 DEF TypeOK, HandsInv, MarksInv, FilesInv, Below, Marked, FetchFails
<1>5. ASSUME Remember PROVE MarksInv'
  BY <1>5 DEF TypeOK, HandsInv, MarksInv, FilesInv, Below, Marked, Remember, Newest,
      Remembers
<1>6. ASSUME PhaseDone PROVE MarksInv'
  BY <1>6 DEF TypeOK, HandsInv, MarksInv, FilesInv, Below, Marked, PhaseDone,
      AfterFetching, SourcesOf
<1>7. ASSUME Save PROVE MarksInv'
  BY <1>7 DEF TypeOK, HandsInv, MarksInv, FilesInv, Below, Marked, Save
<1>8. ASSUME Mark PROVE MarksInv'
  BY <1>8 DEF TypeOK, HandsInv, MarksInv, FilesInv, Below, Marked, Mark
<1>9. ASSUME Persist PROVE MarksInv'
  BY <1>9 DEF TypeOK, HandsInv, MarksInv, FilesInv, Below, Marked, Persist
<1>10. ASSUME WriteDigest PROVE MarksInv'
  BY <1>10 DEF TypeOK, HandsInv, MarksInv, FilesInv, Below, Marked, WriteDigest, Ends
<1>11. ASSUME ReadsTorn PROVE MarksInv'
  BY <1>11 DEF TypeOK, HandsInv, MarksInv, FilesInv, Below, Marked, ReadsTorn, GiveUp, Ends
<1>12. ASSUME Dies PROVE MarksInv'
  BY <1>12 DEF TypeOK, HandsInv, MarksInv, FilesInv, Below, Marked, Dies, GiveUp, Ends
<1>13. ASSUME DiesSaving PROVE MarksInv'
  BY <1>13 DEF TypeOK, HandsInv, MarksInv, FilesInv, Below, Marked, DiesSaving, GiveUp, Ends
<1>14. ASSUME UNCHANGED vars PROVE MarksInv'
  BY <1>14 DEF TypeOK, HandsInv, MarksInv, FilesInv, Below, Marked
<1> QED BY <1>1, <1>2, <1>3, <1>4, <1>5, <1>6, <1>7, <1>8, <1>9, <1>10, <1>11, <1>12,
    <1>13, <1>14 DEF Next, Step, Advance

\* The files are read and written one after the other.
LEMMA FilesInvKept == ASSUME TypeOK, HandsInv, FilesInv, [Next]_vars PROVE FilesInv'
<1>1. ASSUME NEW s \in Source, Publish(s) PROVE FilesInv'
  BY <1>1 DEF TypeOK, HandsInv, Writing, FilesInv, Publish
<1>2. ASSUME StartRun PROVE FilesInv'
  BY <1>2 DEF TypeOK, HandsInv, Writing, FilesInv, StartRun, SourcesOf
<1>3. ASSUME NEW s \in Source, Fetch(s) PROVE FilesInv'
  BY <1>3 DEF TypeOK, HandsInv, Writing, FilesInv, Fetch, Page
<1>4. ASSUME NEW s \in Source, FetchFails(s) PROVE FilesInv'
  BY <1>4 DEF TypeOK, HandsInv, Writing, FilesInv, FetchFails
<1>5. ASSUME Remember PROVE FilesInv'
  BY <1>5 DEF TypeOK, HandsInv, Writing, FilesInv, Remember, Newest, Remembers
<1>6. ASSUME PhaseDone PROVE FilesInv'
  BY <1>6 DEF TypeOK, HandsInv, Writing, FilesInv, PhaseDone, AfterFetching, SourcesOf
<1>7. ASSUME Save PROVE FilesInv'
  BY <1>7 DEF TypeOK, HandsInv, Writing, FilesInv, Save
<1>8. ASSUME Mark PROVE FilesInv'
  BY <1>8 DEF TypeOK, HandsInv, Writing, FilesInv, Mark
<1>9. ASSUME Persist PROVE FilesInv'
  BY <1>9 DEF TypeOK, HandsInv, Writing, FilesInv, Persist
<1>10. ASSUME WriteDigest PROVE FilesInv'
  BY <1>10 DEF TypeOK, HandsInv, Writing, FilesInv, WriteDigest, Ends
<1>11. ASSUME ReadsTorn PROVE FilesInv'
  BY <1>11 DEF TypeOK, HandsInv, Writing, FilesInv, ReadsTorn, GiveUp, Ends
<1>12. ASSUME Dies PROVE FilesInv'
  BY <1>12 DEF TypeOK, HandsInv, Writing, FilesInv, Dies, GiveUp, Ends
<1>13. ASSUME DiesSaving PROVE FilesInv'
  BY <1>13 DEF TypeOK, HandsInv, Writing, FilesInv, DiesSaving, GiveUp, Ends
<1>14. ASSUME UNCHANGED vars PROVE FilesInv'
  BY <1>14 DEF TypeOK, HandsInv, Writing, FilesInv
<1> QED BY <1>1, <1>2, <1>3, <1>4, <1>5, <1>6, <1>7, <1>8, <1>9, <1>10, <1>11, <1>12,
    <1>13, <1>14 DEF Next, Step, Advance

\* The phases do not depend on each other.
LEMMA PhasesInvKept == ASSUME TypeOK, HandsInv, PhasesInv, [Next]_vars PROVE PhasesInv'
<1>1. ASSUME NEW s \in Source, Publish(s) PROVE PhasesInv'
  BY <1>1 DEF TypeOK, HandsInv, SourcesOf, LastPhase, PhasesInv, Publish
<1>2. ASSUME StartRun PROVE PhasesInv'
  BY <1>2 DEF TypeOK, HandsInv, SourcesOf, LastPhase, PhasesInv, StartRun
<1>3. ASSUME NEW s \in Source, Fetch(s) PROVE PhasesInv'
  BY <1>3 DEF TypeOK, HandsInv, SourcesOf, LastPhase, PhasesInv, Fetch, Page
<1>4. ASSUME NEW s \in Source, FetchFails(s) PROVE PhasesInv'
  BY <1>4 DEF TypeOK, HandsInv, SourcesOf, LastPhase, PhasesInv, FetchFails, Marked
<1>5. ASSUME Remember PROVE PhasesInv'
  BY <1>5 DEF TypeOK, HandsInv, SourcesOf, LastPhase, PhasesInv, Remember, Newest, Remembers
<1>6. ASSUME PhaseDone PROVE PhasesInv'
  BY <1>6 DEF TypeOK, HandsInv, SourcesOf, LastPhase, PhasesInv, PhaseDone, AfterFetching
<1>7. ASSUME Save PROVE PhasesInv'
  BY <1>7 DEF TypeOK, HandsInv, SourcesOf, LastPhase, PhasesInv, Save
<1>8. ASSUME Mark PROVE PhasesInv'
  BY <1>8 DEF TypeOK, HandsInv, SourcesOf, LastPhase, PhasesInv, Mark
<1>9. ASSUME Persist PROVE PhasesInv'
  BY <1>9 DEF TypeOK, HandsInv, SourcesOf, LastPhase, PhasesInv, Persist
<1>10. ASSUME WriteDigest PROVE PhasesInv'
  BY <1>10 DEF TypeOK, HandsInv, SourcesOf, LastPhase, PhasesInv, WriteDigest, Ends
<1>11. ASSUME ReadsTorn PROVE PhasesInv'
  BY <1>11 DEF TypeOK, HandsInv, SourcesOf, LastPhase, PhasesInv, ReadsTorn, GiveUp, Ends
<1>12. ASSUME Dies PROVE PhasesInv'
  BY <1>12 DEF TypeOK, HandsInv, SourcesOf, LastPhase, PhasesInv, Dies, GiveUp, Ends
<1>13. ASSUME DiesSaving PROVE PhasesInv'
  BY <1>13 DEF TypeOK, HandsInv, SourcesOf, LastPhase, PhasesInv, DiesSaving, GiveUp, Ends
<1>14. ASSUME UNCHANGED vars PROVE PhasesInv'
  BY <1>14 DEF TypeOK, HandsInv, SourcesOf, LastPhase, PhasesInv
<1> QED BY <1>1, <1>2, <1>3, <1>4, <1>5, <1>6, <1>7, <1>8, <1>9, <1>10, <1>11, <1>12,
    <1>13, <1>14 DEF Next, Step, Advance

\* XIntel, every run: Inv holds in every reachable state.
THEOREM Invariance == Spec => []Inv
<1>1. Init => Inv
  <2> SUFFICES ASSUME Init PROVE Inv
    OBVIOUS
  <2>1. TypeOK
    <3>1. phase \in 1..LastPhase
      BY DEF Init, LastPhase
    <3>2. published \in [Source -> 0..Last] /\ highWater \in [Source -> 0..Last]
      BY DEF Init
    <3>3. runs \in 0..MaxRuns
      BY DEF Init
    <3>8. dry \in BOOLEAN
      BY DEF Init
    <3>4. pc \in {"idle", "remember", "digest"} \cup DOMAIN Reads /\ at \in Source
      BY DEF Init
    <3>5. todo \subseteq Source /\ torn \subseteq File /\ tried \subseteq Source
      BY DEF Init
    <3>6. /\ saved \subseteq Post /\ seen \subseteq Post /\ page \subseteq Post
          /\ batch \subseteq Post /\ raw \subseteq Post /\ got \subseteq Post
      BY DEF Init
    <3>7. /\ failed \subseteq 1..LastPhase /\ cut \subseteq Post /\ dropped \subseteq Post
          /\ reported \subseteq Post
      BY DEF Init
    <3> QED BY <3>1, <3>2, <3>3, <3>4, <3>5, <3>6, <3>7, <3>8 DEF TypeOK
  <2>2. HandsInv
    BY DEF Init, HandsInv
  <2>4. FilesInv /\ PhasesInv
    BY DEF Init, FilesInv, PhasesInv
  <2>3. MarksInv
    BY DEF Init, MarksInv, Below, Marked
  <2> QED BY <2>1, <2>2, <2>3, <2>4 DEF Inv
<1>2. Inv /\ [Next]_vars => Inv'
  BY TypeOKKept, HandsInvKept, MarksInvKept, FilesInvKept, PhasesInvKept DEF Inv
<1> QED BY <1>1, <1>2, PTL DEF Spec

\* XIntel: the variables keep their types.
THEOREM TypeCorrect == Spec => []TypeOK
BY Invariance, PTL DEF Inv

\* cli.py:319-333 against 116-121: a marked post is saved, in hand, or gone for a known reason.
THEOREM PostsAccounted == Spec => []Accounted
<1>1. Inv => Accounted
  BY DEF Inv, MarksInv, Accounted, Marked
<1> QED BY <1>1, Invariance, PTL

\* run, cli.py:116-121: a digest says what the ledger holds.
THEOREM DigestBacked == Spec => []DigestIsBacked
<1>1. Inv => DigestIsBacked
  BY DEF Inv, TypeOK, HandsInv, MarksInv, FilesInv, DigestIsBacked, Marked
<1> QED BY <1>1, Invariance, PTL

\* store.py:122-136: no post of a source is reported by two runs.
THEOREM ReportedOnce == Spec => []NeverReportedTwice
<1>1. Inv => NeverReportedTwice
  BY DEF Inv, MarksInv, NeverReportedTwice, Marked
<1> QED BY <1>1, Invariance, PTL

\* _collect_raw_posts, cli.py:242-252: a phase that fails costs no other phase anything.
THEOREM PhasesApart == Spec => []PhasesIndependent
<1>1. Inv => PhasesIndependent
  BY DEF Inv, TypeOK, HandsInv, PhasesInv, PhasesIndependent
<1> QED BY <1>1, Invariance, PTL

\* store.py:128-175: marks and seen ids only grow, saved posts but for a death in Save.
THEOREM LedgerOnlyGrows == Spec => LedgerGrows
<1>1. Inv /\ [Next]_vars => [Grows]_vars
  <2> SUFFICES ASSUME Inv, Next PROVE Grows
    OBVIOUS
  <2>1. ASSUME NEW s \in Source, Publish(s) PROVE Grows
    BY <2>1 DEF Inv, TypeOK, HandsInv, Grows, Publish
  <2>2. ASSUME StartRun PROVE Grows
    BY <2>2 DEF Inv, TypeOK, HandsInv, Grows, StartRun
  <2>3. ASSUME NEW s \in Source, Fetch(s) PROVE Grows
    BY <2>3 DEF Inv, TypeOK, HandsInv, Grows, Fetch, Page
  <2>4. ASSUME NEW s \in Source, FetchFails(s) PROVE Grows
    BY <2>4 DEF Inv, TypeOK, HandsInv, Grows, FetchFails
  <2>5. ASSUME Remember PROVE Grows
    BY <2>5 DEF Inv, TypeOK, HandsInv, Grows, Remember, Newest, Remembers
  <2>6. ASSUME PhaseDone PROVE Grows
    BY <2>6 DEF Inv, TypeOK, HandsInv, Grows, PhaseDone
  <2>7. ASSUME Save PROVE Grows
    BY <2>7 DEF Inv, TypeOK, HandsInv, Grows, Save
  <2>8. ASSUME Mark PROVE Grows
    BY <2>8 DEF Inv, TypeOK, HandsInv, Grows, Mark
  <2>9. ASSUME Persist PROVE Grows
    BY <2>9 DEF Inv, TypeOK, HandsInv, Grows, Persist
  <2>10. ASSUME WriteDigest PROVE Grows
    BY <2>10 DEF Inv, TypeOK, HandsInv, Grows, WriteDigest, Ends
  <2>11. ASSUME ReadsTorn PROVE Grows
    BY <2>11 DEF Inv, TypeOK, HandsInv, Grows, ReadsTorn, GiveUp, Ends
  <2>12. ASSUME Dies PROVE Grows
    BY <2>12 DEF Inv, TypeOK, HandsInv, Grows, Dies, GiveUp, Ends
  <2>13. ASSUME DiesSaving PROVE Grows
    BY <2>13 DEF Inv, TypeOK, HandsInv, Grows, DiesSaving, GiveUp, Ends
  <2> QED BY <2>1, <2>2, <2>3, <2>4, <2>5, <2>6, <2>7, <2>8, <2>9, <2>10, <2>11, <2>12,
      <2>13 DEF Next, Step, Advance
<1> QED BY <1>1, Invariance, PTL DEF Spec, LedgerGrows

-----------------------------------------------------------------------------
(***************************************************************************)
(* A run does a bounded amount of work.                                    *)
(***************************************************************************)
\* The sources the run has still to ask, in this phase and in those to come.
Unasked ==
  {s \in Source : s \in todo \/ (pc \in {"fetch", "remember"} /\ PhaseOf[s] > phase)}

\* The steps that remain when there is no source left to ask.
StepsAfter ==
  CASE pc = "fetch" -> LastPhase + 5 - phase [] pc = "remember" -> LastPhase + 6 - phase
    [] pc = "save" -> 4 [] pc = "mark" -> 3 [] pc = "persist" -> 2 [] pc = "digest" -> 1
    [] OTHER -> 0

\* Each source takes a request and, perhaps, a mark.
Work == 2 * Cardinality(Unasked) + StepsAfter

\* Whatever a step of the run meets it leaves less to do, and what is published leaves it as it was.
WorkShrinks ==
  pc # "idle" => Work' < Work \/ (Work' = Work /\ UNCHANGED <<pc, run>>)

\* A run with something to remember finds the newest post of the page.
MarkIsFound == pc = "remember" /\ Remembers => Newest # {}

LEMMA CountSources ==
  ASSUME IsFiniteSet(Source), NEW S \in SUBSET Source
  PROVE  /\ IsFiniteSet(S) /\ Cardinality(S) \in Nat
         /\ \A T \in SUBSET S : Cardinality(T) <= Cardinality(S) /\ Cardinality(T) \in Nat
         /\ \A s \in S, T \in SUBSET S : s \notin T => Cardinality(T) < Cardinality(S)
<1>1. IsFiniteSet(S)
  BY FS_Subset
<1>2. Cardinality(S) \in Nat
  BY <1>1, FS_CardinalityType
<1>3. ASSUME NEW T \in SUBSET S
      PROVE  /\ Cardinality(T) <= Cardinality(S) /\ Cardinality(T) \in Nat
             /\ T # S => Cardinality(T) < Cardinality(S)
  <2>1. Cardinality(T) <= Cardinality(S) /\ (Cardinality(S) = Cardinality(T) => S = T)
    BY <1>1, FS_Subset
  <2>2. Cardinality(T) \in Nat
    BY <1>1, FS_Subset, FS_CardinalityType
  <2> QED
    BY <1>2, <2>1, <2>2
<1> QED
  BY <1>1, <1>2, <1>3

\* Nothing new to ask, and one step less to take, or one source less and one step more.
LEMMA LessWork ==
  ASSUME IsFiniteSet(Source), TypeOK, TypeOK', Unasked' \subseteq Unasked,
         \/ StepsAfter' < StepsAfter
         \/ StepsAfter' <= StepsAfter + 1 /\ \E s \in Unasked : s \notin Unasked'
  PROVE  Work' < Work
<1>1. Unasked \in SUBSET Source
  BY DEF Unasked
<1>2. StepsAfter \in Nat /\ StepsAfter' \in Nat
  BY DEF StepsAfter, TypeOK, LastPhase
<1>3. /\ Cardinality(Unasked) \in Nat /\ Cardinality(Unasked') \in Nat
      /\ Cardinality(Unasked') <= Cardinality(Unasked)
      /\ (\E s \in Unasked : s \notin Unasked') => Cardinality(Unasked') < Cardinality(Unasked)
  BY <1>1, CountSources
<1> QED
  BY <1>2, <1>3 DEF Work

\* How every run ends is the same as far as its work goes.
LEMMA EndsWork ==
  ASSUME IsFiniteSet(Source), TypeOK, TypeOK', pc # "idle", Ends
  PROVE  Work' < Work
<1>1. Unasked' \subseteq Unasked
  BY DEF Ends, Unasked
<1>2. StepsAfter' < StepsAfter
  BY DEF Ends, StepsAfter, TypeOK, LastPhase
<1> QED
  BY <1>1, <1>2, LessWork

LEMMA StepWork ==
  ASSUME IsFiniteSet(Source), TypeOK, TypeOK', HandsInv, Step
  PROVE  Work' < Work
<1>1. ASSUME NEW s \in Source, Fetch(s) PROVE Work' < Work
  <2>1. Unasked' \subseteq Unasked /\ s \in Unasked /\ s \notin Unasked'
    BY <1>1 DEF Fetch, Unasked, HandsInv, SourcesOf, TypeOK
  <2>2. StepsAfter' <= StepsAfter + 1
    BY <1>1 DEF Fetch, StepsAfter, TypeOK, LastPhase
  <2> QED
    BY <2>1, <2>2, LessWork
<1>2. ASSUME NEW s \in Source, FetchFails(s) PROVE Work' < Work
  <2>1. Unasked' \subseteq Unasked /\ s \in Unasked /\ s \notin Unasked'
    BY <1>2 DEF FetchFails, Unasked, HandsInv, SourcesOf, TypeOK, LastPhase
  <2>2. StepsAfter' <= StepsAfter + 1
    BY <1>2 DEF FetchFails, StepsAfter, TypeOK, LastPhase
  <2> QED
    BY <2>1, <2>2, LessWork
<1>3. CASE Remember
  <2>1. Unasked' \subseteq Unasked
    BY <1>3 DEF Remember, Unasked
  <2>2. StepsAfter' < StepsAfter
    BY <1>3 DEF Remember, StepsAfter, TypeOK, LastPhase
  <2> QED
    BY <2>1, <2>2, LessWork
<1>4. CASE PhaseDone
  <2>1. Unasked' \subseteq Unasked
    BY <1>4 DEF PhaseDone, AfterFetching, Unasked, SourcesOf, TypeOK, LastPhase
  <2>2. StepsAfter' < StepsAfter
    BY <1>4 DEF PhaseDone, AfterFetching, StepsAfter, TypeOK, LastPhase
  <2> QED
    BY <2>1, <2>2, LessWork
<1>5. CASE Save \/ Mark \/ Persist
  <2>1. Unasked' \subseteq Unasked
    BY <1>5 DEF Save, Mark, Persist, Unasked
  <2>2. StepsAfter' < StepsAfter
    BY <1>5 DEF Save, Mark, Persist, StepsAfter
  <2> QED
    BY <2>1, <2>2, LessWork
<1>6. CASE WriteDigest \/ ReadsTorn \/ Dies \/ DiesSaving
  BY <1>6, EndsWork DEF WriteDigest, ReadsTorn, Dies, DiesSaving, GiveUp
<1> QED
  BY <1>1, <1>2, <1>3, <1>4, <1>5, <1>6 DEF Step, Advance

\* A page that is not empty has a newest post: its posts are numbered up to Last.
LEMMA PageHasANewest ==
  ASSUME TypeOK, page # {}
  PROVE  Newest # {}
<1> DEFINE older == {e \in Nat \X Nat : e[1] < e[2]}
           T == {Last - p[2] : p \in page}
<1>1. IsWellFoundedOn(older, Nat)
  BY NatLessThanWellFounded DEF OpToRel
<1>2. \A p \in page : p[2] \in 1..Last
  BY DEF TypeOK
<1>3. T \subseteq Nat /\ T # {}
  BY <1>2
<1> HIDE DEF older, T
<1>4. PICK x \in T : \A y \in T : <<y, x>> \notin older
  BY <1>1, <1>3, WFMin
<1>5. ASSUME NEW y \in T PROVE x <= y
  <2>1. x \in Nat /\ y \in Nat /\ <<y, x>> \notin older
    BY <1>3, <1>4
  <2>2. ~(y < x)
    BY <2>1 DEF older
  <2> QED
    BY <2>1, <2>2
<1>6. PICK p \in page : x = Last - p[2]
  BY <1>4 DEF T
<1>7. ASSUME NEW q \in page PROVE q[2] <= p[2]
  <2>1. x <= Last - q[2]
    BY <1>5 DEF T
  <2> QED
    BY <1>2, <1>6, <2>1
<1> QED
  BY <1>7 DEF Newest

\* A run (cli.py:94-150) does a bounded amount of work, for finitely many sources and whatever
\* its requests and files do: it asks each source once at most, and takes at most Work steps;
\* and the one step that looks for something always finds it.
THEOREM RunIsBounded ==
  ASSUME IsFiniteSet(Source)
  PROVE  Spec => [](Work \in Nat) /\ [][WorkShrinks]_vars /\ []MarkIsFound
<1>1. Inv => Work \in Nat
  <2> SUFFICES ASSUME Inv PROVE Work \in Nat
    OBVIOUS
  <2>1. Cardinality(Unasked) \in Nat
    BY CountSources DEF Unasked
  <2>2. StepsAfter \in Nat
    BY DEF StepsAfter, Inv, TypeOK, LastPhase
  <2> QED
    BY <2>1, <2>2 DEF Work
<1>2. Inv /\ Inv' /\ [Next]_vars => [WorkShrinks]_vars
  <2> SUFFICES ASSUME Inv, Inv', Next, pc # "idle" PROVE WorkShrinks
    BY DEF WorkShrinks
  <2>1. CASE Step
    BY <2>1, StepWork DEF WorkShrinks, Inv
  <2>2. ASSUME NEW s \in Source, Publish(s) PROVE WorkShrinks
    <3>1. UNCHANGED <<pc, run>>
      BY <2>2 DEF Publish
    <3>2. Unasked' = Unasked /\ StepsAfter' = StepsAfter
      BY <3>1 DEF Unasked, StepsAfter
    <3> QED
      BY <3>1, <3>2 DEF WorkShrinks, Work
  <2> QED
    BY <2>1, <2>2 DEF Next, StartRun
<1>3. Inv => MarkIsFound
  BY PageHasANewest DEF Inv, MarkIsFound, Remembers
<1> QED
  BY <1>1, <1>2, <1>3, Invariance, PTL DEF Spec

\* What a ledger file in pieces costs (store.py:138-184, jsonl.py:28-30, 42-45): no run mends
\* it, and from then on no post is reported by any run, of whatever source and phase, though
\* the marks may still pass it; each later real run ends before its digest.
THEOREM RuinIsForGood ==
  Spec => [](torn # {} => [](torn # {})) /\ [][torn # {} => reported' = reported]_vars
<1>1. [Next]_vars => torn \subseteq torn'
  BY DEF Next, Step, Advance, Publish, StartRun, Fetch, FetchFails, Remember, PhaseDone, Save,
         Mark, Persist, WriteDigest, ReadsTorn, Dies, DiesSaving, vars, ledger
<1>2. torn # {} /\ [Next]_vars => (torn # {})'
  BY <1>1
<1>3. Inv /\ [Next]_vars => [torn # {} => reported' = reported]_vars
  <2> SUFFICES ASSUME Inv, Next, torn # {} PROVE reported' = reported
    OBVIOUS
  <2>1. CASE WriteDigest
    <3>1. dry
      BY <2>1 DEF WriteDigest, Inv, FilesInv, TypeOK, File
    <3> QED
      BY <2>1, <3>1 DEF WriteDigest, Marked
  <2>2. CASE ~WriteDigest
    BY <2>2 DEF Next, Step, Advance, Publish, StartRun, Fetch, FetchFails, Remember, PhaseDone,
                Save, Mark, Persist, ReadsTorn, Dies, DiesSaving, GiveUp, past
  <2> QED
    BY <2>1, <2>2
<1> QED
  BY <1>2, <1>3, Invariance, PTL DEF Spec
=============================================================================
