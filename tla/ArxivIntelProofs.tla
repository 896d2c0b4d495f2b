-------------------------- MODULE ArxivIntelProofs --------------------------
(***************************************************************************)
(* Proofs about ArxivIntel, for any set of overlapping runs and any        *)
(* bounds.  Nothing that was saved or is accounted for goes missing        *)
(* between two steps (Kept and Known only grow); what a run holds at each  *)
(* point of it is within them, whatever the other runs do.                 *)
(***************************************************************************)
EXTENDS ArxivIntel, TLAPS

\* What the store holds, is about to hold, or was made to lose.
Kept == papers \cup Pending \cup Lost
\* What is in the digest of a real run, written or still to be, or was passed over.
Known == passedOver \cup {p \in Paper : \E r \in Run : p \in Real(r, top[r])}

Saving == {"merge", "save", "saving", "look", "mark", "marking"}

\* What a run has done by each point of it.
HandsInv == \A r \in Run :
  /\ pc[r] \in {"waiting", "fetch", "rank"} => top[r] = {}
  /\ pc[r] \in {"waiting", "over"} => raw[r] = {} /\ base[r] = {}
  /\ pc[r] \in Saving => ~dry[r] /\ top[r] \subseteq raw[r]
  /\ pc[r] \in (Under \ {"digest"}) \cup {"waiting"} => written[r] = 0
  /\ pc[r] = "digest" => written[r] <= 5
  /\ r \in mixed => pc[r] \in {"saving", "marking", "digest"}

\* Whoever is seen was saved.
SavedInv ==
  /\ seen \subseteq Kept
  /\ \A r \in Run :
       /\ pc[r] \in {"look", "mark", "marking"} => raw[r] \subseteq Kept
       /\ pc[r] \in {"mark", "marking"} => base[r] \subseteq Kept

\* Whoever is seen is accounted for.
KnownInv ==
  /\ seen \subseteq Known
  /\ \A r \in Run :
       /\ pc[r] \in Saving => raw[r] \subseteq Known
       /\ pc[r] \in {"mark", "marking"} => base[r] \subseteq Known

\* A run without others finds in its files what it read there.
AloneInv ==
  /\ \A r \in Run : \A q \in Run :
       r # q /\ pc[r] \in Under /\ pc[q] \in Under => ~alone[r]
  /\ \A r \in Run : alone[r] =>
       /\ r \notin mixed
       /\ pc[r] \in {"save", "saving"} => papers \subseteq Merged(r)
       /\ pc[r] \in {"mark", "marking"} => seen \subseteq Merged(r)
  /\ (\A r \in Run : alone[r]) => overwritten = {} /\ forgotten = {}

\* What was presented is noted, unless the note was lost.
NotedInv ==
  /\ Reported \subseteq seen \cup forgotten
  /\ \A r \in Run :
       /\ pc[r] = "digest" /\ ~dry[r] => top[r] \subseteq seen \cup forgotten
       /\ pc[r] \in Under /\ alone[r] /\ ~again[r] /\ ~Presented(r)
            => top[r] \cap Reported \subseteq forgotten

\* A run's own files hold its digest, but for another's with the same stamp; and only a run
\* that has written them gets to the latest ones.
HistoryInv ==
  /\ \A r \in Run :
       /\ written[r] >= 3 => shelf[<<stamp[r], "md">>] = r \/ Shared(r)
       /\ written[r] >= 4 => shelf[<<stamp[r], "json">>] = r \/ Shared(r)
       /\ r \in mixed /\ pc[r] = "digest" => written[r] >= 2 /\ (written[r] <= 3 => Shared(r))
  /\ \A s \in Suffix : shelf[<<"latest", s>>] \in Run => written[shelf[<<"latest", s>>]] >= 4

Inv == TypeOK /\ HandsInv /\ SavedInv /\ KnownInv /\ AloneInv /\ NotedInv /\ HistoryInv

USE DEF vars, ledger, digests, hands, losses, ghosts, File, Suffix, Under, Saving

\* The six names, one by one.
LEMMA WritesAre ==
  /\ Writes[1] = <<"daily", "md">> /\ Writes[2] = <<"daily", "json">>
  /\ Writes[3] = <<"history", "md">> /\ Writes[4] = <<"history", "json">>
  /\ Writes[5] = <<"latest", "md">> /\ Writes[6] = <<"latest", "json">>
BY DEF Writes

\* Which file is next.
LEMMA NextIs ==
  ASSUME TypeOK, NEW r \in Run, written[r] \in 0..5
  PROVE  /\ written[r] = 0 => NextFile(r) = <<"daily", "md">>
         /\ written[r] = 1 => NextFile(r) = <<"daily", "json">>
         /\ written[r] = 2 => NextFile(r) = <<stamp[r], "md">>
         /\ written[r] = 3 => NextFile(r) = <<stamp[r], "json">>
         /\ written[r] = 4 => NextFile(r) = <<"latest", "md">>
         /\ written[r] = 5 => NextFile(r) = <<"latest", "json">>
         /\ NextFile(r) \in DOMAIN shelf <=> written[r] >= 2
         /\ DOMAIN shelf = Name \X Suffix
<1>1. DOMAIN shelf = Name \X Suffix /\ stamp[r] \in Stamp
  BY DEF TypeOK
<1>2. CASE written[r] = 0
  BY <1>1, <1>2, WritesAre, StampAssumption DEF NextFile, Name
<1>3. CASE written[r] = 1
  BY <1>1, <1>3, WritesAre, StampAssumption DEF NextFile, Name
<1>4. CASE written[r] = 2
  BY <1>1, <1>4, WritesAre DEF NextFile, Name
<1>5. CASE written[r] = 3
  BY <1>1, <1>5, WritesAre DEF NextFile, Name
<1>6. CASE written[r] = 4
  BY <1>1, <1>6, WritesAre DEF NextFile, Name
<1>7. CASE written[r] = 5
  BY <1>1, <1>7, WritesAre DEF NextFile, Name
<1> QED BY <1>1, <1>2, <1>3, <1>4, <1>5, <1>6, <1>7

\* Runs that are about to write the same file.
LEMMA BesideIs ==
  ASSUME TypeOK, HandsInv, NEW r \in Run, pc[r] = "digest", NEW q \in Beside(r)
  PROVE  /\ q \in Run /\ q # r /\ pc[q] = "digest"
         /\ written[q] = written[r]
         /\ written[r] \in {2, 3} => stamp[q] = stamp[r]
<1>1. q \in Run /\ q # r /\ pc[q] = "digest" /\ NextFile(q) = NextFile(r)
  BY DEF Beside, At
<1>2. written[r] \in 0..5 /\ written[q] \in 0..5
  BY <1>1 DEF HandsInv, TypeOK
<1>3. stamp[r] \notin {"daily", "latest"} /\ stamp[q] \notin {"daily", "latest"}
  BY <1>1, StampAssumption DEF TypeOK
<1>4. written[q] = written[r]
  BY <1>1, <1>2, <1>3, NextIs
<1>5. written[r] = 2 => <<stamp[q], "md">> = <<stamp[r], "md">>
  BY <1>1, <1>2, <1>4, NextIs
<1>6. written[r] = 3 => <<stamp[q], "json">> = <<stamp[r], "json">>
  BY <1>1, <1>2, <1>4, NextIs
<1> QED BY <1>1, <1>4, <1>5, <1>6

\* What writing the next file does.
LEMMA DigestStep ==
  ASSUME TypeOK, HandsInv, NEW r \in Run, WriteDigest(r)
  PROVE  /\ pc[r] = "digest" /\ written[r] \in 0..5
         /\ written' = [written EXCEPT ![r] = @ + 1]
         /\ written[r] \in {0, 1} => UNCHANGED <<shelf, mixed>>
         /\ written[r] >= 2 =>
              /\ mixed' = (mixed \ {r}) \cup Beside(r)
              /\ \E author \in Authors(r) : shelf' = [shelf EXCEPT ![NextFile(r)] = author]
         /\ written[r] < 5 => UNCHANGED <<pc, again, raw, base>>
         /\ written[r] = 5 => Leaves(r)
         /\ UNCHANGED <<published, ledger, stamp, dry, top, ghosts>>
<1>1. pc[r] = "digest" /\ written[r] \in 0..5 /\ written' = [written EXCEPT ![r] = @ + 1]
  BY DEF WriteDigest, TypeOK, HandsInv
<1>2. NextFile(r) \in DOMAIN shelf <=> written[r] >= 2
  BY <1>1, NextIs
<1>3. written[r] < 5 => UNCHANGED <<pc, again, raw, base>>
  BY DEF WriteDigest
<1>4. written[r] = 5 => Leaves(r)
  BY DEF WriteDigest
<1> QED BY <1>1, <1>2, <1>3, <1>4 DEF WriteDigest

\* The types are kept.
LEMMA TypeOKKept ==
  ASSUME TypeOK, HandsInv, [Next]_vars
  PROVE  TypeOK'
<1>1. ASSUME Publish PROVE TypeOK'
  BY <1>1, BoundAssumption DEF Publish, TypeOK, Paper
<1>2. ASSUME NEW r \in Run, Start(r) PROVE TypeOK'
BY <1>2 DEF Start, GoTo, Active, TypeOK
<1>3. ASSUME NEW r \in Run, Fetch(r) PROVE TypeOK'
  <2>1. Page \subseteq Paper
    BY BoundAssumption DEF Page, Paper, TypeOK
  <2> QED BY <1>3, <2>1 DEF Fetch, GoTo, TypeOK
<1>4. ASSUME NEW r \in Run, Rank(r) PROVE TypeOK'
BY <1>4 DEF Rank, GoTo, AfterRanking, Fresh, Real, TypeOK
<1>5. ASSUME NEW r \in Run, ReadPapers(r) PROVE TypeOK'
BY <1>5 DEF ReadPapers, GoTo, TypeOK
<1>6. ASSUME NEW r \in Run, OpenPapers(r) PROVE TypeOK'
BY <1>6 DEF OpenPapers, GoTo, Merged, Opened, At, TypeOK
<1>7. ASSUME NEW r \in Run, ClosePapers(r) PROVE TypeOK'
  <2>1. \A d \in Drafts : d \subseteq Paper
    BY DEF Drafts, At, Merged, TypeOK
  <2>2. papers' \subseteq Paper
    <3>1. CASE r \in mixed
      <4>1. PICK first \in Drafts, rest \in SUBSET (UNION Drafts) : papers' = first \cup rest
        BY <1>7, <3>1 DEF ClosePapers
      <4> QED BY <2>1, <4>1
    <3>2. CASE r \notin mixed
      BY <1>7, <3>2 DEF ClosePapers, Merged, TypeOK
    <3> QED BY <3>1, <3>2
  <2>3. torn' \subseteq File
    BY <1>7 DEF ClosePapers, TypeOK
  <2>4. Merged(r) \subseteq Paper
    BY DEF Merged, TypeOK
  <2> QED BY <1>7, <2>2, <2>3, <2>4 DEF ClosePapers, GoTo, TypeOK
<1>8. ASSUME NEW r \in Run, ReadSeen(r) PROVE TypeOK'
BY <1>8 DEF ReadSeen, GoTo, TypeOK
<1>9. ASSUME NEW r \in Run, OpenSeen(r) PROVE TypeOK'
BY <1>9 DEF OpenSeen, GoTo, Opened, At, TypeOK
<1>10. ASSUME NEW r \in Run, CloseSeen(r) PROVE TypeOK'
  <2>1. \A q \in Run : Merged(q) \subseteq Paper
    BY DEF Merged, TypeOK
  <2>2. seen' \subseteq Paper
    BY <1>10, <2>1 DEF CloseSeen, At, TypeOK
  <2>3. torn' \subseteq File
    BY <1>10 DEF CloseSeen, TypeOK
  <2> QED BY <1>10, <2>1, <2>2, <2>3 DEF CloseSeen, GoTo, TypeOK
<1>11. ASSUME NEW r \in Run, WriteDigest(r) PROVE TypeOK'
  <2>1. written' \in [Run -> 0..6]
    BY <1>11, DigestStep DEF TypeOK
  <2>2. shelf' \in [Name \X Suffix -> Run \cup {NoRun}] /\ mixed' \subseteq Run
    <3>1. CASE written[r] \in {0, 1}
      BY <1>11, <3>1, DigestStep DEF TypeOK
    <3>2. CASE written[r] >= 2
      <4>1. NextFile(r) \in Name \X Suffix
        BY <1>11, <3>2, DigestStep, NextIs
      <4>2. Authors(r) \subseteq Run \cup {NoRun}
        BY <4>1 DEF Authors, TypeOK
      <4>3. mixed' \subseteq Run
        BY <1>11, <3>2, DigestStep DEF Beside, At, TypeOK
      <4> QED BY <1>11, <3>2, <4>1, <4>2, <4>3, DigestStep DEF TypeOK
    <3> QED BY <1>11, <3>1, <3>2, DigestStep
  <2>3. /\ pc' \in [Run -> Under \cup {"waiting", "over"}] /\ again' \in [Run -> BOOLEAN]
        /\ raw' \in [Run -> SUBSET Paper] /\ base' \in [Run -> SUBSET Paper]
    <3>1. UNCHANGED <<pc, again, raw, base>> \/ Leaves(r)
      BY <1>11, DigestStep
    <3> QED BY <3>1 DEF TypeOK, Leaves, GoTo
  <2> QED BY <1>11, <2>1, <2>2, <2>3, DigestStep DEF TypeOK
<1>12. ASSUME NEW r \in Run, ReadsTorn(r) PROVE TypeOK'
BY <1>12 DEF ReadsTorn, Stops, Leaves, GoTo, Reads, TypeOK
<1>13. ASSUME NEW r \in Run, Dies(r) PROVE TypeOK'
BY <1>13 DEF Dies, Stops, Leaves, GoTo, Beside, At, Merged, TypeOK
<1>14. ASSUME UNCHANGED vars PROVE TypeOK'
BY <1>14 DEF TypeOK
<1> QED BY <1>1, <1>2, <1>3, <1>4, <1>5, <1>6, <1>7, <1>8, <1>9, <1>10, <1>11, <1>12,
    <1>13, <1>14 DEF Next, Advance

\* How far each run is.
LEMMA HandsInvKept ==
  ASSUME TypeOK, HandsInv, [Next]_vars
  PROVE  HandsInv'
<1>1. ASSUME Publish PROVE HandsInv'
BY <1>1 DEF Publish, TypeOK, HandsInv
<1>2. ASSUME NEW r \in Run, Start(r) PROVE HandsInv'
BY <1>2 DEF Start, GoTo, Active, TypeOK, HandsInv
<1>3. ASSUME NEW r \in Run, Fetch(r) PROVE HandsInv'
BY <1>3 DEF Fetch, GoTo, Page, TypeOK, HandsInv
<1>4. ASSUME NEW r \in Run, Rank(r) PROVE HandsInv'
BY <1>4 DEF Rank, GoTo, AfterRanking, Fresh, Real, TypeOK, HandsInv
<1>5. ASSUME NEW r \in Run, ReadPapers(r) PROVE HandsInv'
BY <1>5 DEF ReadPapers, GoTo, TypeOK, HandsInv
<1>6. ASSUME NEW r \in Run, OpenPapers(r) PROVE HandsInv'
BY <1>6 DEF OpenPapers, GoTo, Merged, Opened, At, TypeOK, HandsInv
<1>7. ASSUME NEW r \in Run, ClosePapers(r) PROVE HandsInv'
BY <1>7 DEF ClosePapers, GoTo, Merged, Drafts, At, TypeOK, HandsInv
<1>8. ASSUME NEW r \in Run, ReadSeen(r) PROVE HandsInv'
BY <1>8 DEF ReadSeen, GoTo, TypeOK, HandsInv
<1>9. ASSUME NEW r \in Run, OpenSeen(r) PROVE HandsInv'
BY <1>9 DEF OpenSeen, GoTo, Opened, At, TypeOK, HandsInv
<1>10. ASSUME NEW r \in Run, CloseSeen(r) PROVE HandsInv'
BY <1>10 DEF CloseSeen, GoTo, Merged, At, TypeOK, HandsInv
<1>11. ASSUME NEW r \in Run, WriteDigest(r) PROVE HandsInv'
  <2>1. pc[r] = "digest" /\ written[r] \in 0..5 /\ written' = [written EXCEPT ![r] = @ + 1]
    BY <1>11, DigestStep
  <2>2. UNCHANGED <<pc, again, raw, base>> \/ Leaves(r)
    BY <1>11, DigestStep
  <2>3. \A q \in Run : q # r => UNCHANGED <<pc[q], raw[q], base[q], written[q]>>
    BY <2>1, <2>2 DEF Leaves, TypeOK, GoTo
  <2>4. UNCHANGED <<top, dry>>
    BY <1>11, DigestStep
  <2>5. \/ written[r] < 5 /\ pc'[r] = "digest"
        \/ written[r] = 5 /\ pc'[r] = "over" /\ raw'[r] = {} /\ base'[r] = {}
    BY <1>11, <2>1, DigestStep DEF Leaves, TypeOK, GoTo
  <2>6. \A q \in Run : q \in mixed' => pc'[q] \in {"saving", "marking", "digest"}
    <3>1. CASE written[r] \in {0, 1}
      BY <1>11, <2>1, <2>3, <2>5, <3>1, DigestStep DEF HandsInv
    <3>2. CASE written[r] >= 2
      <4>1. mixed' = (mixed \ {r}) \cup Beside(r)
        BY <1>11, <3>2, DigestStep
      <4>2. \A q \in Beside(r) : q # r /\ pc[q] = "digest"
        BY DEF Beside, At
      <4> QED BY <2>3, <4>1, <4>2 DEF HandsInv
    <3> QED BY <2>1, <3>1, <3>2
  <2>7. written'[r] = written[r] + 1
    BY <2>1 DEF TypeOK
  <2> QED BY <2>1, <2>3, <2>4, <2>5, <2>6, <2>7 DEF HandsInv
<1>12. ASSUME NEW r \in Run, ReadsTorn(r) PROVE HandsInv'
BY <1>12 DEF ReadsTorn, Stops, Leaves, GoTo, Reads, TypeOK, HandsInv
<1>13. ASSUME NEW r \in Run, Dies(r) PROVE HandsInv'
BY <1>13 DEF Dies, Stops, Leaves, GoTo, Beside, At, Merged, TypeOK, HandsInv
<1>14. ASSUME UNCHANGED vars PROVE HandsInv'
BY <1>14 DEF TypeOK, HandsInv
<1> QED BY <1>1, <1>2, <1>3, <1>4, <1>5, <1>6, <1>7, <1>8, <1>9, <1>10, <1>11, <1>12,
    <1>13, <1>14 DEF Next, Advance

\* No step takes a paper from the store unnoticed.
LEMMA KeptGrows ==
  ASSUME TypeOK, [Next]_vars
  PROVE  Kept \subseteq Kept'
<1>1. ASSUME Publish PROVE Kept \subseteq Kept'
BY <1>1 DEF Publish, TypeOK, Kept, Lost, Merged, Pending
<1>2. ASSUME NEW r \in Run, Start(r) PROVE Kept \subseteq Kept'
BY <1>2 DEF Start, GoTo, Active, TypeOK, Kept, Lost, Merged, Pending
<1>3. ASSUME NEW r \in Run, Fetch(r) PROVE Kept \subseteq Kept'
BY <1>3 DEF Fetch, GoTo, Page, TypeOK, Kept, Lost, Merged, Pending
<1>4. ASSUME NEW r \in Run, Rank(r) PROVE Kept \subseteq Kept'
BY <1>4 DEF Rank, GoTo, AfterRanking, Fresh, Real, TypeOK, Kept, Lost, Merged, Pending
<1>5. ASSUME NEW r \in Run, ReadPapers(r) PROVE Kept \subseteq Kept'
BY <1>5 DEF ReadPapers, GoTo, TypeOK, Kept, Lost, Merged, Pending
<1>6. ASSUME NEW r \in Run, OpenPapers(r) PROVE Kept \subseteq Kept'
BY <1>6 DEF OpenPapers, GoTo, Merged, Opened, At, TypeOK, Kept, Lost, Pending
<1>7. ASSUME NEW r \in Run, ClosePapers(r) PROVE Kept \subseteq Kept'
BY <1>7 DEF ClosePapers, GoTo, Merged, Drafts, At, TypeOK, Kept, Lost, Pending
<1>8. ASSUME NEW r \in Run, ReadSeen(r) PROVE Kept \subseteq Kept'
BY <1>8 DEF ReadSeen, GoTo, TypeOK, Kept, Lost, Merged, Pending
<1>9. ASSUME NEW r \in Run, OpenSeen(r) PROVE Kept \subseteq Kept'
BY <1>9 DEF OpenSeen, GoTo, Opened, At, TypeOK, Kept, Lost, Merged, Pending
<1>10. ASSUME NEW r \in Run, CloseSeen(r) PROVE Kept \subseteq Kept'
BY <1>10 DEF CloseSeen, GoTo, Merged, At, TypeOK, Kept, Lost, Pending
<1>11. ASSUME NEW r \in Run, WriteDigest(r) PROVE Kept \subseteq Kept'
BY <1>11 DEF WriteDigest, Leaves, GoTo, TypeOK, Kept, Lost, Merged, Pending
<1>12. ASSUME NEW r \in Run, ReadsTorn(r) PROVE Kept \subseteq Kept'
BY <1>12 DEF ReadsTorn, Stops, Leaves, GoTo, Reads, TypeOK, Kept, Lost, Merged,
      Pending
<1>13. ASSUME NEW r \in Run, Dies(r) PROVE Kept \subseteq Kept'
BY <1>13 DEF Dies, Stops, Leaves, GoTo, Beside, At, Merged, TypeOK, Kept, Lost, Pending
<1>14. ASSUME UNCHANGED vars PROVE Kept \subseteq Kept'
BY <1>14 DEF TypeOK, Kept, Lost, Merged, Pending
<1> QED BY <1>1, <1>2, <1>3, <1>4, <1>5, <1>6, <1>7, <1>8, <1>9, <1>10, <1>11, <1>12,
    <1>13, <1>14 DEF Next, Advance

\* No step loses sight of a paper that was accounted for.
LEMMA KnownGrows ==
  ASSUME TypeOK, HandsInv, [Next]_vars
  PROVE  Known \subseteq Known'
<1>1. ASSUME Publish PROVE Known \subseteq Known'
BY <1>1 DEF Publish, TypeOK, HandsInv, Known, Real
<1>2. ASSUME NEW r \in Run, Start(r) PROVE Known \subseteq Known'
BY <1>2 DEF Start, GoTo, Active, TypeOK, HandsInv, Known, Real
<1>3. ASSUME NEW r \in Run, Fetch(r) PROVE Known \subseteq Known'
BY <1>3 DEF Fetch, GoTo, Page, TypeOK, HandsInv, Known, Real
<1>4. ASSUME NEW r \in Run, Rank(r) PROVE Known \subseteq Known'
BY <1>4 DEF Rank, GoTo, AfterRanking, Fresh, Real, TypeOK, HandsInv, Known
<1>5. ASSUME NEW r \in Run, ReadPapers(r) PROVE Known \subseteq Known'
BY <1>5 DEF ReadPapers, GoTo, TypeOK, HandsInv, Known, Real
<1>6. ASSUME NEW r \in Run, OpenPapers(r) PROVE Known \subseteq Known'
BY <1>6 DEF OpenPapers, GoTo, Merged, Opened, At, TypeOK, HandsInv, Known, Real,
      Active
<1>7. ASSUME NEW r \in Run, ClosePapers(r) PROVE Known \subseteq Known'
BY <1>7 DEF ClosePapers, GoTo, Merged, Drafts, At, TypeOK, HandsInv, Known, Real
<1>8. ASSUME NEW r \in Run, ReadSeen(r) PROVE Known \subseteq Known'
BY <1>8 DEF ReadSeen, GoTo, TypeOK, HandsInv, Known, Real
<1>9. ASSUME NEW r \in Run, OpenSeen(r) PROVE Known \subseteq Known'
BY <1>9 DEF OpenSeen, GoTo, Opened, At, TypeOK, HandsInv, Known, Real
<1>10. ASSUME NEW r \in Run, CloseSeen(r) PROVE Known \subseteq Known'
BY <1>10 DEF CloseSeen, GoTo, Merged, At, TypeOK, HandsInv, Known, Real
<1>11. ASSUME NEW r \in Run, WriteDigest(r) PROVE Known \subseteq Known'
BY <1>11 DEF WriteDigest, Leaves, GoTo, TypeOK, HandsInv, Known, Real
<1>12. ASSUME NEW r \in Run, ReadsTorn(r) PROVE Known \subseteq Known'
BY <1>12 DEF ReadsTorn, Stops, Leaves, GoTo, Reads, TypeOK, HandsInv, Known, Real
<1>13. ASSUME NEW r \in Run, Dies(r) PROVE Known \subseteq Known'
BY <1>13 DEF Dies, Stops, Leaves, GoTo, Beside, At, Merged, TypeOK, HandsInv, Known, Real
<1>14. ASSUME UNCHANGED vars PROVE Known \subseteq Known'
BY <1>14 DEF TypeOK, HandsInv, Known, Real
<1> QED BY <1>1, <1>2, <1>3, <1>4, <1>5, <1>6, <1>7, <1>8, <1>9, <1>10, <1>11, <1>12,
    <1>13, <1>14 DEF Next, Advance

\* Whoever is seen was saved.
LEMMA SavedInvKept ==
  ASSUME TypeOK, HandsInv, SavedInv, [Next]_vars
  PROVE  SavedInv'
<1>1. ASSUME Publish PROVE SavedInv'
BY <1>1, KeptGrows DEF Publish, TypeOK, HandsInv, SavedInv
<1>2. ASSUME NEW r \in Run, Start(r) PROVE SavedInv'
BY <1>2, KeptGrows DEF Start, GoTo, Active, TypeOK, HandsInv, SavedInv
<1>3. ASSUME NEW r \in Run, Fetch(r) PROVE SavedInv'
BY <1>3, KeptGrows DEF Fetch, GoTo, Page, TypeOK, HandsInv, SavedInv
<1>4. ASSUME NEW r \in Run, Rank(r) PROVE SavedInv'
BY <1>4, KeptGrows DEF Rank, GoTo, AfterRanking, Fresh, Real, TypeOK, HandsInv, SavedInv
<1>5. ASSUME NEW r \in Run, ReadPapers(r) PROVE SavedInv'
BY <1>5, KeptGrows DEF ReadPapers, GoTo, TypeOK, HandsInv, SavedInv
<1>6. ASSUME NEW r \in Run, OpenPapers(r) PROVE SavedInv'
BY <1>6, KeptGrows DEF OpenPapers, GoTo, Merged, Opened, At, TypeOK, HandsInv, SavedInv
<1>7. ASSUME NEW r \in Run, ClosePapers(r) PROVE SavedInv'
  <2>1. raw'[r] \subseteq Kept'
    BY <1>7 DEF ClosePapers, Merged, Kept, Lost
  <2>2. \A q \in Run : q # r => pc'[q] = pc[q]
    BY <1>7 DEF ClosePapers, GoTo, TypeOK
  <2>3. pc'[r] = "look" /\ UNCHANGED <<seen, raw, base>>
    BY <1>7 DEF ClosePapers, GoTo, TypeOK
  <2> QED BY <2>1, <2>2, <2>3, KeptGrows DEF SavedInv
<1>8. ASSUME NEW r \in Run, ReadSeen(r) PROVE SavedInv'
BY <1>8, KeptGrows DEF ReadSeen, GoTo, TypeOK, HandsInv, SavedInv
<1>9. ASSUME NEW r \in Run, OpenSeen(r) PROVE SavedInv'
BY <1>9, KeptGrows DEF OpenSeen, GoTo, Opened, At, TypeOK, HandsInv, SavedInv
<1>10. ASSUME NEW r \in Run, CloseSeen(r) PROVE SavedInv'
BY <1>10, KeptGrows DEF CloseSeen, GoTo, Merged, At, TypeOK, HandsInv, SavedInv
<1>11. ASSUME NEW r \in Run, WriteDigest(r) PROVE SavedInv'
BY <1>11, KeptGrows DEF WriteDigest, Leaves, GoTo, TypeOK, HandsInv, SavedInv
<1>12. ASSUME NEW r \in Run, ReadsTorn(r) PROVE SavedInv'
BY <1>12, KeptGrows DEF ReadsTorn, Stops, Leaves, GoTo, Reads, TypeOK, HandsInv,
      SavedInv
<1>13. ASSUME NEW r \in Run, Dies(r) PROVE SavedInv'
BY <1>13, KeptGrows DEF Dies, Stops, Leaves, GoTo, Beside, At, Merged, TypeOK, HandsInv, SavedInv
<1>14. ASSUME UNCHANGED vars PROVE SavedInv'
BY <1>14, KeptGrows DEF TypeOK, HandsInv, SavedInv
<1> QED BY <1>1, <1>2, <1>3, <1>4, <1>5, <1>6, <1>7, <1>8, <1>9, <1>10, <1>11, <1>12,
    <1>13, <1>14 DEF Next, Advance

\* Whoever is seen is accounted for.
LEMMA KnownInvKept ==
  ASSUME TypeOK, HandsInv, KnownInv, [Next]_vars
  PROVE  KnownInv'
<1>1. ASSUME Publish PROVE KnownInv'
BY <1>1, KnownGrows DEF Publish, TypeOK, HandsInv, KnownInv
<1>2. ASSUME NEW r \in Run, Start(r) PROVE KnownInv'
BY <1>2, KnownGrows DEF Start, GoTo, Active, TypeOK, HandsInv, KnownInv
<1>3. ASSUME NEW r \in Run, Fetch(r) PROVE KnownInv'
BY <1>3, KnownGrows DEF Fetch, GoTo, Page, TypeOK, HandsInv, KnownInv
<1>4. ASSUME NEW r \in Run, Rank(r) PROVE KnownInv'
  <2>1. \A q \in Run : q # r => pc'[q] = pc[q]
    BY <1>4 DEF Rank, GoTo, TypeOK
  <2>2. pc'[r] \notin {"mark", "marking"} /\ UNCHANGED <<seen, raw, base, dry>>
    BY <1>4 DEF Rank, GoTo, AfterRanking, TypeOK
  <2>3. ASSUME ~dry[r] PROVE raw[r] \subseteq Known'
    <3>1. raw[r] \subseteq Fresh(r) \cup seen
      BY DEF Fresh
    <3>2. Fresh(r) \subseteq top'[r] \cup passedOver' /\ top'[r] \subseteq Paper
      BY <1>4, <2>3 DEF Rank, Real, Fresh, TypeOK
    <3>3. Real(r, top[r])' = top'[r]
      BY <2>2, <2>3 DEF Real
    <3> QED BY <3>1, <3>2, <3>3, KnownGrows DEF Known, KnownInv
  <2>4. dry[r] => pc'[r] = "digest"
    BY <1>4 DEF Rank, GoTo, AfterRanking, TypeOK
  <2> QED BY <2>1, <2>2, <2>3, <2>4, KnownGrows DEF KnownInv
<1>5. ASSUME NEW r \in Run, ReadPapers(r) PROVE KnownInv'
BY <1>5, KnownGrows DEF ReadPapers, GoTo, TypeOK, HandsInv, KnownInv
<1>6. ASSUME NEW r \in Run, OpenPapers(r) PROVE KnownInv'
BY <1>6, KnownGrows DEF OpenPapers, GoTo, Merged, Opened, At, TypeOK, HandsInv, KnownInv
<1>7. ASSUME NEW r \in Run, ClosePapers(r) PROVE KnownInv'
BY <1>7, KnownGrows DEF ClosePapers, GoTo, Merged, Drafts, At, TypeOK, HandsInv, KnownInv
<1>8. ASSUME NEW r \in Run, ReadSeen(r) PROVE KnownInv'
BY <1>8, KnownGrows DEF ReadSeen, GoTo, TypeOK, HandsInv, KnownInv
<1>9. ASSUME NEW r \in Run, OpenSeen(r) PROVE KnownInv'
BY <1>9, KnownGrows DEF OpenSeen, GoTo, Opened, At, TypeOK, HandsInv, KnownInv
<1>10. ASSUME NEW r \in Run, CloseSeen(r) PROVE KnownInv'
BY <1>10, KnownGrows DEF CloseSeen, GoTo, Merged, At, TypeOK, HandsInv, KnownInv
<1>11. ASSUME NEW r \in Run, WriteDigest(r) PROVE KnownInv'
BY <1>11, KnownGrows DEF WriteDigest, Leaves, GoTo, TypeOK, HandsInv, KnownInv
<1>12. ASSUME NEW r \in Run, ReadsTorn(r) PROVE KnownInv'
BY <1>12, KnownGrows DEF ReadsTorn, Stops, Leaves, GoTo, Reads, TypeOK, HandsInv,
      KnownInv
<1>13. ASSUME NEW r \in Run, Dies(r) PROVE KnownInv'
BY <1>13, KnownGrows DEF Dies, Stops, Leaves, GoTo, Beside, At, Merged, TypeOK, HandsInv, KnownInv
<1>14. ASSUME UNCHANGED vars PROVE KnownInv'
BY <1>14, KnownGrows DEF TypeOK, HandsInv, KnownInv
<1> QED BY <1>1, <1>2, <1>3, <1>4, <1>5, <1>6, <1>7, <1>8, <1>9, <1>10, <1>11, <1>12,
    <1>13, <1>14 DEF Next, Advance

\* A run without others finds what it read.
LEMMA AloneInvKept ==
  ASSUME TypeOK, HandsInv, AloneInv, [Next]_vars
  PROVE  AloneInv'
<1>1. ASSUME Publish PROVE AloneInv'
BY <1>1 DEF Publish, TypeOK, HandsInv, AloneInv, Merged
<1>2. ASSUME NEW r \in Run, Start(r) PROVE AloneInv'
  <2>1. \A q \in Run : alone'[q] => alone[q] /\ pc[q] \notin Under
    BY <1>2 DEF Start, Active, TypeOK
  <2>2. \A q \in Run : q # r => pc'[q] = pc[q]
    BY <1>2 DEF Start, GoTo, TypeOK
  <2>3. alone'[r] => \A q \in Run : pc[q] \notin Under
    BY <1>2 DEF Start, Active, TypeOK
  <2>4. pc'[r] = "fetch" /\ UNCHANGED <<overwritten, forgotten>>
    BY <1>2 DEF Start, GoTo, TypeOK
  <2>5. UNCHANGED <<mixed, papers, seen, raw, base>>
    BY <1>2 DEF Start
  <2>6. \A p, q \in Run : p # q /\ pc'[p] \in Under /\ pc'[q] \in Under => ~alone'[p]
    BY <2>1, <2>2, <2>3 DEF AloneInv
  <2>7. ASSUME NEW q \in Run, alone'[q]
        PROVE  /\ q \notin mixed'
               /\ pc'[q] \notin {"save", "saving", "mark", "marking"}
    BY <2>1, <2>2, <2>4, <2>5, <2>7 DEF AloneInv
  <2>8. (\A q \in Run : alone'[q]) => overwritten' = {} /\ forgotten' = {}
    BY <2>1, <2>4 DEF AloneInv
  <2> QED BY <2>6, <2>7, <2>8 DEF AloneInv
<1>3. ASSUME NEW r \in Run, Fetch(r) PROVE AloneInv'
BY <1>3 DEF Fetch, GoTo, Page, TypeOK, HandsInv, AloneInv, Merged
<1>4. ASSUME NEW r \in Run, Rank(r) PROVE AloneInv'
BY <1>4 DEF Rank, GoTo, AfterRanking, Fresh, Real, TypeOK, HandsInv, AloneInv, Merged
<1>5. ASSUME NEW r \in Run, ReadPapers(r) PROVE AloneInv'
BY <1>5 DEF ReadPapers, GoTo, TypeOK, HandsInv, AloneInv, Merged
<1>6. ASSUME NEW r \in Run, OpenPapers(r) PROVE AloneInv'
BY <1>6 DEF OpenPapers, GoTo, Merged, Opened, At, TypeOK, HandsInv, AloneInv
<1>7. ASSUME NEW r \in Run, ClosePapers(r) PROVE AloneInv'
BY <1>7 DEF ClosePapers, GoTo, Merged, Drafts, At, TypeOK, HandsInv, AloneInv
<1>8. ASSUME NEW r \in Run, ReadSeen(r) PROVE AloneInv'
BY <1>8 DEF ReadSeen, GoTo, TypeOK, HandsInv, AloneInv, Merged
<1>9. ASSUME NEW r \in Run, OpenSeen(r) PROVE AloneInv'
BY <1>9 DEF OpenSeen, GoTo, Opened, At, TypeOK, HandsInv, AloneInv, Merged
<1>10. ASSUME NEW r \in Run, CloseSeen(r) PROVE AloneInv'
BY <1>10 DEF CloseSeen, GoTo, Merged, At, TypeOK, HandsInv, AloneInv
<1>11. ASSUME NEW r \in Run, WriteDigest(r) PROVE AloneInv'
  <2>1. pc[r] = "digest" /\ UNCHANGED <<alone, papers, seen, overwritten, forgotten>>
    BY <1>11, DigestStep
  <2>2. /\ \A q \in Run : q # r => UNCHANGED <<pc[q], raw[q], base[q]>>
        /\ pc'[r] \in {"digest", "over"}
    BY <1>11, DigestStep DEF Leaves, GoTo, TypeOK
  <2>3. \A q \in Run : pc'[q] \in Under => pc[q] \in Under
    BY <2>1, <2>2
  <2>4. mixed' \subseteq mixed \cup Beside(r)
    BY <1>11, DigestStep
  <2>5. \A q \in Beside(r) : ~alone[q]
    BY <2>1, BesideIs DEF AloneInv
  <2>6. \A q \in Run : Merged(q)' = Merged(q) \/ q = r
    BY <2>2 DEF Merged
  <2> QED BY <2>1, <2>2, <2>3, <2>4, <2>5, <2>6 DEF AloneInv
<1>12. ASSUME NEW r \in Run, ReadsTorn(r) PROVE AloneInv'
BY <1>12 DEF ReadsTorn, Stops, Leaves, GoTo, Reads, TypeOK, HandsInv, AloneInv, Merged
<1>13. ASSUME NEW r \in Run, Dies(r) PROVE AloneInv'
BY <1>13 DEF Dies, Stops, Leaves, GoTo, Beside, At, Merged, TypeOK, HandsInv, AloneInv
<1>14. ASSUME UNCHANGED vars PROVE AloneInv'
BY <1>14 DEF TypeOK, HandsInv, AloneInv, Merged
<1> QED BY <1>1, <1>2, <1>3, <1>4, <1>5, <1>6, <1>7, <1>8, <1>9, <1>10, <1>11, <1>12,
    <1>13, <1>14 DEF Next, Advance

\* What was presented stays what it is while a digest that was written is left as it is.
LEMMA ReportedSame ==
  ASSUME TypeOK, written' = written,
         \A q \in Run : written[q] >= 4 => top'[q] = top[q] /\ dry'[q] = dry[q]
  PROVE  Reported' = Reported /\ \A q \in Run : Presented(q)' = Presented(q)
<1>1. \A q \in Run : Presented(q)' = Presented(q)
  BY DEF Presented
<1>2. \A q \in Run : Presented(q) => Real(q, top[q])' = Real(q, top[q])
  BY DEF Presented, Real
<1> QED BY <1>1, <1>2 DEF Reported

\* What was presented is noted.
LEMMA NotedInvKept ==
  ASSUME TypeOK, HandsInv, AloneInv, NotedInv, [Next]_vars
  PROVE  NotedInv'
<1>1. ASSUME Publish PROVE NotedInv'
BY <1>1, ReportedSame DEF Publish, TypeOK, HandsInv, AloneInv, NotedInv
<1>2. ASSUME NEW r \in Run, Start(r) PROVE NotedInv'
BY <1>2, ReportedSame DEF Start, GoTo, Active, TypeOK, HandsInv, AloneInv, NotedInv
<1>3. ASSUME NEW r \in Run, Fetch(r) PROVE NotedInv'
BY <1>3, ReportedSame DEF Fetch, GoTo, Page, TypeOK, HandsInv, AloneInv, NotedInv
<1>4. ASSUME NEW r \in Run, Rank(r) PROVE NotedInv'
BY <1>4, ReportedSame DEF Rank, GoTo, AfterRanking, Fresh, Real, TypeOK, HandsInv, AloneInv, NotedInv
<1>5. ASSUME NEW r \in Run, ReadPapers(r) PROVE NotedInv'
BY <1>5, ReportedSame DEF ReadPapers, GoTo, TypeOK, HandsInv, AloneInv, NotedInv
<1>6. ASSUME NEW r \in Run, OpenPapers(r) PROVE NotedInv'
BY <1>6, ReportedSame DEF OpenPapers, GoTo, Merged, Opened, At, TypeOK, HandsInv, AloneInv, NotedInv
<1>7. ASSUME NEW r \in Run, ClosePapers(r) PROVE NotedInv'
BY <1>7, ReportedSame DEF ClosePapers, GoTo, Merged, Drafts, At, TypeOK, HandsInv, AloneInv, NotedInv
<1>8. ASSUME NEW r \in Run, ReadSeen(r) PROVE NotedInv'
BY <1>8, ReportedSame DEF ReadSeen, GoTo, TypeOK, HandsInv, AloneInv, NotedInv
<1>9. ASSUME NEW r \in Run, OpenSeen(r) PROVE NotedInv'
BY <1>9, ReportedSame DEF OpenSeen, GoTo, Opened, At, TypeOK, HandsInv, AloneInv, NotedInv
<1>10. ASSUME NEW r \in Run, CloseSeen(r) PROVE NotedInv'
BY <1>10, ReportedSame DEF CloseSeen, GoTo, Merged, At, TypeOK, HandsInv, AloneInv, NotedInv
<1>11. ASSUME NEW r \in Run, WriteDigest(r) PROVE NotedInv'
  <2>1. /\ pc[r] = "digest" /\ UNCHANGED <<seen, dry, top, alone, forgotten>>
        /\ written[r] \in Nat /\ written' = [written EXCEPT ![r] = @ + 1]
    BY <1>11, DigestStep
  <2>2. \A q \in Run : q # r => UNCHANGED <<pc[q], again[q], written[q]>>
    BY <1>11, DigestStep DEF Leaves, GoTo, TypeOK
  <2>3. \A q \in Run : q # r => Presented(q)' = Presented(q)
    BY <2>2 DEF Presented
  <2>4. Presented(r) => Presented(r)'
    BY <2>1 DEF Presented, TypeOK
  <2>5. Reported' \subseteq Reported \cup Real(r, top[r])
    BY <2>1, <2>3 DEF Reported, Real
  <2>6. ~Presented(r)' => Reported' = Reported
    BY <2>1, <2>3, <2>4 DEF Reported, Real
  <2>7. \A q \in Run : q # r /\ pc[q] \in Under => ~alone[q]
    BY <2>1 DEF AloneInv
  <2>8. Reported' \subseteq seen' \cup forgotten'
    BY <2>1, <2>5 DEF NotedInv, Real
  <2>9. ASSUME NEW q \in Run
        PROVE  pc'[q] = "digest" /\ ~dry'[q] => top'[q] \subseteq seen' \cup forgotten'
    BY <2>1, <2>2 DEF NotedInv
  <2>10. ASSUME NEW q \in Run
         PROVE  pc'[q] \in Under /\ alone'[q] /\ ~again'[q] /\ ~Presented(q)'
                  => top'[q] \cap Reported' \subseteq forgotten'
    <3>1. CASE q = r
      <4>1. pc'[r] \in Under => again'[r] = again[r]
        BY <1>11, DigestStep DEF Leaves, GoTo, TypeOK
      <4> QED BY <2>1, <2>4, <2>6, <3>1, <4>1 DEF NotedInv
    <3>2. CASE q # r
      BY <2>1, <2>2, <2>7, <3>2
    <3> QED BY <3>1, <3>2
  <2> QED BY <2>8, <2>9, <2>10 DEF NotedInv
<1>12. ASSUME NEW r \in Run, ReadsTorn(r) PROVE NotedInv'
BY <1>12, ReportedSame DEF ReadsTorn, Stops, Leaves, GoTo, Reads, TypeOK, HandsInv, AloneInv,
      NotedInv
<1>13. ASSUME NEW r \in Run, Dies(r) PROVE NotedInv'
BY <1>13, ReportedSame DEF Dies, Stops, Leaves, GoTo, Beside, At, Merged, TypeOK, HandsInv,
      AloneInv, NotedInv
<1>14. ASSUME UNCHANGED vars PROVE NotedInv'
BY <1>14, ReportedSame DEF TypeOK, HandsInv, AloneInv, NotedInv
<1> QED BY <1>1, <1>2, <1>3, <1>4, <1>5, <1>6, <1>7, <1>8, <1>9, <1>10, <1>11, <1>12,
    <1>13, <1>14 DEF Next, Advance

\* What others leave of a run's files, and what the latest ones hold.
LEMMA HistoryInvKept ==
  ASSUME TypeOK, HandsInv, HistoryInv, [Next]_vars
  PROVE  HistoryInv'
<1> USE DEF TypeOK, GoTo
<1>1. CASE \E r \in Run : WriteDigest(r)
  <2>1. PICK r \in Run : WriteDigest(r)
    BY <1>1
  <2>2. /\ pc[r] = "digest" /\ written[r] \in 0..5 /\ UNCHANGED stamp
        /\ written'[r] = written[r] + 1
        /\ \A q \in Run : q # r => written'[q] = written[q] /\ pc'[q] = pc[q]
    BY <2>1, DigestStep DEF Leaves
  <2>3. \A q \in Run : Shared(q) => Shared(q)'
    BY <2>2 DEF Shared
  <2>4. written[r] >= 2 => \A q \in Run : q # r /\ stamp[q] = stamp[r] => Shared(q)'
    BY <2>2 DEF Shared
  <2>5. CASE written[r] \in {0, 1}
    <3>1. UNCHANGED <<shelf, mixed>>
      BY <2>1, <2>5, DigestStep
    <3>2. \A q \in Run : written'[q] >= 3 => written[q] >= 3 /\ written'[q] = written[q]
      BY <2>2, <2>5
    <3>3. \A q \in Run : q \in mixed /\ pc'[q] = "digest"
                           => /\ written'[q] >= 2
                              /\ written'[q] <= 3 => Shared(q)
      <4>1. r \notin mixed
        <5>1. ~(written[r] >= 2)
          BY <2>5
        <5> QED BY <2>2, <5>1 DEF HistoryInv
      <4>2. \A q \in mixed : q # r
        BY <4>1
      <4> QED BY <2>2, <4>2 DEF HistoryInv
    <3>4. \A q \in Run : written[q] >= 4 => written'[q] >= 4
      BY <2>2
    <3> QED BY <2>2, <2>3, <3>1, <3>2, <3>3, <3>4 DEF HistoryInv
  <2>6. CASE written[r] >= 2
    <3>1. PICK author \in Authors(r) : shelf' = [shelf EXCEPT ![NextFile(r)] = author]
      BY <2>1, <2>6, DigestStep
    <3>2. mixed' = (mixed \ {r}) \cup Beside(r)
      BY <2>1, <2>6, DigestStep
    <3>3. NextFile(r) \in Name \X Suffix
      BY <2>2, <2>6, NextIs
    <3>4. shelf'[NextFile(r)] \in {r} \cup (IF r \in mixed THEN {shelf[NextFile(r)], NoRun} ELSE {})
      BY <3>1, <3>3 DEF Authors
    <3>5. \A f \in Name \X Suffix : f # NextFile(r) => shelf'[f] = shelf[f]
      BY <3>1
    <3>6. \A q \in Run, s \in Suffix :
            q # r /\ <<stamp[q], s>> = NextFile(r) => stamp[q] = stamp[r]
      <4>1. stamp[r] \in Stamp
        OBVIOUS
      <4> QED BY <2>2, <2>6, <4>1, NextIs, StampAssumption
    <3>7. ASSUME NEW q \in Run, q # r, NEW s \in Suffix, shelf[<<stamp[q], s>>] = q \/ Shared(q)
          PROVE  shelf'[<<stamp[q], s>>] = q \/ Shared(q)'
      <4>1. <<stamp[q], s>> \in Name \X Suffix
        BY DEF Name
      <4> QED BY <2>3, <2>4, <2>6, <3>5, <3>6, <3>7, <4>1
    <3>8. ASSUME NEW q \in Run, q # r, q \in mixed', pc'[q] = "digest"
          PROVE  written'[q] >= 2 /\ (written'[q] <= 3 => Shared(q)')
      <4>1. CASE q \in mixed
        BY <2>2, <2>3, <3>8, <4>1 DEF HistoryInv
      <4>2. CASE q \in Beside(r)
        <5>1. written[q] = written[r] /\ (written[r] \in {2, 3} => stamp[q] = stamp[r])
          BY <2>2, <4>2, BesideIs
        <5> QED BY <2>2, <2>4, <2>6, <3>8, <5>1
      <4> QED BY <3>2, <3>8, <4>1, <4>2
    <3>9. r \notin mixed'
      BY <3>2 DEF Beside
    <3>10. /\ written'[r] >= 3 => shelf'[<<stamp[r], "md">>] = r \/ Shared(r)'
           /\ written'[r] >= 4 => shelf'[<<stamp[r], "json">>] = r \/ Shared(r)'
      <4>1. <<stamp[r], "md">> \in Name \X Suffix /\ <<stamp[r], "json">> \in Name \X Suffix
        BY DEF Name
      <4>2. stamp[r] # "latest"
        BY StampAssumption
      <4>3. CASE written[r] = 2
        <5>1. NextFile(r) = <<stamp[r], "md">>
          BY <4>3, NextIs
        <5>2. r \in mixed => Shared(r)
          <6>1. written[r] <= 3
            BY <4>3
          <6> QED BY <2>2, <6>1 DEF HistoryInv
        <5> QED BY <2>2, <2>3, <3>4, <4>3, <5>1, <5>2
      <4>4. CASE written[r] = 3
        <5>1. NextFile(r) = <<stamp[r], "json">>
          BY <4>4, NextIs
        <5>2. r \in mixed => Shared(r)
          <6>1. written[r] <= 3
            BY <4>4
          <6> QED BY <2>2, <6>1 DEF HistoryInv
        <5>3. shelf'[<<stamp[r], "md">>] = shelf[<<stamp[r], "md">>]
          BY <3>5, <4>1, <5>1
        <5>4. shelf[<<stamp[r], "md">>] = r \/ Shared(r)
          <6>1. written[r] >= 3
            BY <4>4
          <6> QED BY <6>1 DEF HistoryInv
        <5> QED BY <2>3, <3>4, <5>1, <5>2, <5>3, <5>4
      <4>5. CASE written[r] \in {4, 5}
        <5>1. NextFile(r) \in {<<"latest", "md">>, <<"latest", "json">>}
          BY <4>5, NextIs
        <5>2. \A s \in Suffix : shelf'[<<stamp[r], s>>] = shelf[<<stamp[r], s>>]
          BY <3>5, <4>1, <4>2, <5>1
        <5>3. /\ shelf[<<stamp[r], "md">>] = r \/ Shared(r)
              /\ shelf[<<stamp[r], "json">>] = r \/ Shared(r)
          BY <4>5 DEF HistoryInv
        <5> QED BY <2>3, <5>2, <5>3
      <4> QED BY <2>2, <2>6, <4>3, <4>4, <4>5
    <3>11. ASSUME NEW s \in Suffix, shelf'[<<"latest", s>>] \in Run
           PROVE  written'[shelf'[<<"latest", s>>]] >= 4
      <4>1. <<"latest", s>> \in Name \X Suffix
        BY DEF Name
      <4>2. \A q \in Run : written[q] >= 4 => written'[q] >= 4
        BY <2>2
      <4>3. shelf[<<"latest", s>>] \in Run => written[shelf[<<"latest", s>>]] >= 4
        BY DEF HistoryInv
      <4>4. CASE <<"latest", s>> = NextFile(r)
        <5>1. written[r] >= 4
          <6>1. stamp[r] # "latest"
            BY StampAssumption
          <6> QED BY <2>2, <2>6, <4>4, <6>1, NextIs
        <5>2. shelf'[<<"latest", s>>] \in {r, shelf[<<"latest", s>>], NoRun}
          BY <3>4, <4>4
        <5> QED BY <3>11, <4>2, <4>3, <5>1, <5>2, NoRunAssumption
      <4>5. CASE <<"latest", s>> # NextFile(r)
        BY <3>5, <3>11, <4>1, <4>2, <4>3, <4>5
      <4> QED BY <4>4, <4>5
    <3>12. ASSUME NEW q \in Run, q # r
           PROVE  /\ written'[q] >= 3 => shelf'[<<stamp[q], "md">>] = q \/ Shared(q)'
                  /\ written'[q] >= 4 => shelf'[<<stamp[q], "json">>] = q \/ Shared(q)'
      BY <2>2, <3>7, <3>12 DEF HistoryInv
    <3> QED BY <2>2, <3>8, <3>9, <3>10, <3>11, <3>12 DEF HistoryInv
  <2> QED BY <2>2, <2>5, <2>6
<1>2. CASE \E r \in Run : Dies(r)
  <2>1. PICK r \in Run : Dies(r)
    BY <1>2
  <2>2. /\ UNCHANGED <<stamp, written>> /\ pc'[r] = "over"
        /\ \A q \in Run : q # r => pc'[q] = pc[q]
    BY <2>1 DEF Dies, Stops, Leaves
  <2>3. \A q \in Run : Shared(q)' = Shared(q)
    BY <2>2 DEF Shared
  <2>4. CASE shelf' = shelf /\ mixed' = mixed \ {r}
    BY <2>2, <2>3, <2>4 DEF HistoryInv
  <2>5. CASE /\ pc[r] = "digest" /\ NextFile(r) \in DOMAIN shelf
             /\ shelf' = [shelf EXCEPT ![NextFile(r)] = NoRun]
             /\ mixed' = (mixed \ {r}) \cup Beside(r)
    <3>1. written[r] \in 2..5
      <4>1. written[r] \in 0..5
        BY <2>5 DEF HandsInv
      <4> QED BY <2>5, <4>1, NextIs
    <3>2. \A f \in Name \X Suffix : f # NextFile(r) => shelf'[f] = shelf[f]
      BY <2>5
    <3>3. \A q \in Run : q # r /\ stamp[q] = stamp[r] => Shared(q)
      BY <3>1 DEF Shared
    <3>4. ASSUME NEW q \in Run, NEW s \in Suffix, <<stamp[q], s>> = NextFile(r)
          PROVE  /\ stamp[q] = stamp[r]
                 /\ written[r] = 2 => s = "md"
                 /\ written[r] = 3 => s = "json"
                 /\ written[r] \in {2, 3}
      <4>1. stamp[q] # "latest"
        BY StampAssumption
      <4> QED BY <3>1, <3>4, <4>1, NextIs
    <3>5. ASSUME NEW q \in Run, q # r, NEW s \in Suffix, shelf[<<stamp[q], s>>] = q \/ Shared(q)
          PROVE  shelf'[<<stamp[q], s>>] = q \/ Shared(q)'
      <4>1. <<stamp[q], s>> \in Name \X Suffix
        BY DEF Name
      <4>2. CASE <<stamp[q], s>> = NextFile(r)
        BY <2>3, <3>3, <3>4, <3>5, <4>2
      <4>3. CASE <<stamp[q], s>> # NextFile(r)
        BY <2>3, <3>2, <3>5, <4>1, <4>3
      <4> QED BY <4>2, <4>3
    <3>6. /\ written[r] >= 3 => shelf'[<<stamp[r], "md">>] = r \/ Shared(r)'
          /\ written[r] >= 4 => shelf'[<<stamp[r], "json">>] = r \/ Shared(r)'
      <4>1. <<stamp[r], "md">> \in Name \X Suffix /\ <<stamp[r], "json">> \in Name \X Suffix
        BY DEF Name
      <4>2. written[r] >= 3 => shelf'[<<stamp[r], "md">>] = shelf[<<stamp[r], "md">>]
        <5>1. written[r] >= 3 => <<stamp[r], "md">> # NextFile(r)
          BY <3>1, <3>4
        <5> QED BY <3>2, <4>1, <5>1
      <4>3. written[r] >= 4 => shelf'[<<stamp[r], "json">>] = shelf[<<stamp[r], "json">>]
        <5>1. written[r] >= 4 => <<stamp[r], "json">> # NextFile(r)
          BY <3>1, <3>4
        <5> QED BY <3>2, <4>1, <5>1
      <4> QED BY <2>3, <4>2, <4>3 DEF HistoryInv
    <3>7. ASSUME NEW q \in Run, q \in mixed', pc'[q] = "digest"
          PROVE  written[q] >= 2 /\ (written[q] <= 3 => Shared(q)')
      <4>1. q # r
        BY <2>2, <3>7
      <4>2. CASE q \in mixed
        BY <2>2, <2>3, <3>7, <4>1, <4>2 DEF HistoryInv
      <4>3. CASE q \in Beside(r)
        <5>1. written[q] = written[r] /\ (written[r] \in {2, 3} => stamp[q] = stamp[r])
          BY <2>5, <4>3, BesideIs
        <5>2. written[q] <= 3 => stamp[q] = stamp[r]
          BY <3>1, <5>1
        <5> QED BY <2>3, <3>1, <3>3, <4>1, <5>1, <5>2
      <4> QED BY <2>5, <3>7, <4>2, <4>3
    <3>8. \A s \in Suffix : shelf'[<<"latest", s>>] \in {shelf[<<"latest", s>>], NoRun}
      <4>1. \A s \in Suffix : <<"latest", s>> \in Name \X Suffix
        BY DEF Name
      <4>2. NextFile(r) \in Name \X Suffix
        BY <2>5
      <4>3. shelf'[NextFile(r)] = NoRun
        BY <2>5, <4>2
      <4> QED BY <3>2, <4>1, <4>3
    <3>9. \A q \in Run : q # r =>
            /\ written[q] >= 3 => shelf'[<<stamp[q], "md">>] = q \/ Shared(q)'
            /\ written[q] >= 4 => shelf'[<<stamp[q], "json">>] = q \/ Shared(q)'
      BY <3>5 DEF HistoryInv
    <3>10. \A s \in Suffix : shelf'[<<"latest", s>>] \in Run => written[shelf'[<<"latest", s>>]] >= 4
      BY <3>8, NoRunAssumption DEF HistoryInv
    <3> QED BY <2>2, <3>6, <3>7, <3>9, <3>10 DEF HistoryInv
  <2> QED BY <2>1, <2>4, <2>5 DEF Dies
<1>3. CASE ~(\E r \in Run : WriteDigest(r) \/ Dies(r))
  <2>1. UNCHANGED <<shelf, stamp, written>>
    BY <1>3 DEF Next, Advance, Publish, Start, Fetch, Rank, ReadPapers, OpenPapers, ClosePapers,
      ReadSeen, OpenSeen, CloseSeen, ReadsTorn, Stops
  <2>2. \A q \in Run : Shared(q)' = Shared(q)
    BY <2>1 DEF Shared
  <2>3. \A q \in Run : q \in mixed' /\ pc'[q] = "digest" => q \in mixed /\ pc[q] = "digest"
    BY <1>3 DEF Next, Advance, Publish, Start, Fetch, Rank, ReadPapers, OpenPapers,
      ClosePapers, ReadSeen, OpenSeen, CloseSeen, ReadsTorn, Stops, Leaves, Opened, At, HandsInv
  <2> QED BY <2>1, <2>2, <2>3 DEF HistoryInv
<1> QED BY <1>1, <1>2, <1>3

LEMMA InvHolds == Spec => []Inv
<1>1. Init => Inv
  <2>1. Init => TypeOK
    BY BoundAssumption DEF Init, TypeOK, Paper
  <2>2. Init => HandsInv
    BY DEF Init, HandsInv
  <2>3. Init => SavedInv /\ KnownInv
    BY DEF Init, SavedInv, KnownInv
  <2>4. Init => AloneInv /\ NotedInv
    BY DEF Init, AloneInv, NotedInv, Reported, Presented
  <2>5. Init => HistoryInv
    BY NoRunAssumption DEF Init, HistoryInv, Name
  <2> QED BY <2>1, <2>2, <2>3, <2>4, <2>5 DEF Inv
<1>2. Inv /\ [Next]_vars => Inv'
  BY TypeOKKept, HandsInvKept, SavedInvKept, KnownInvKept, AloneInvKept, NotedInvKept,
     HistoryInvKept DEF Inv
<1> QED BY <1>1, <1>2, PTL DEF Spec

\* What was written to history/ is there, unless another run of the same stamp wrote it over.
LEMMA PresentedIsThere ==
  ASSUME TypeOK, HistoryInv, NEW r \in Run, Presented(r)
  PROVE  Archived(r) \/ Shared(r)
<1>1. written[r] >= 4 /\ written[r] >= 3
  BY DEF Presented, TypeOK
<1> QED BY <1>1 DEF HistoryInv, Archived

\* The variables keep their types, for any runs and bounds (the state of store.py and of
\* cli.run).
THEOREM TypeCorrect == Spec => []TypeOK
BY InvHolds, PTL DEF Inv

\* A paper noted as seen is in the store, or a stale or cut-off rewrite took it out, and
\* only overlapping runs make a rewrite stale (cli.py:88-90).
THEOREM SeenSaved == Spec => []SeenIsSaved
<1>1. Inv => SeenIsSaved
  BY DEF Inv, SavedInv, AloneInv, Kept, SeenIsSaved
<1> QED BY <1>1, InvHolds, PTL

\* A paper noted as seen was passed over, or is in a real run's digest: one that history/
\* holds unless the run did not get to it, or another with its stamp wrote it over
\* (cli.py:79-109, store.py:68-72).
THEOREM SeenAccounted == Spec => []SeenIsAccounted
<1>1. Inv => SeenIsAccounted
  <2>1. SUFFICES ASSUME Inv, NEW p \in seen \ passedOver
                 PROVE  \E r \in Run : /\ p \in Real(r, top[r])
                                       /\ ~Presented(r) \/ Archived(r) \/ Shared(r)
    BY DEF SeenIsAccounted
  <2>2. PICK r \in Run : p \in Real(r, top[r])
    BY <2>1 DEF Inv, KnownInv, Known
  <2>3. ~Presented(r) \/ Archived(r) \/ Shared(r)
    BY <2>1, PresentedIsThere DEF Inv
  <2> QED BY <2>2, <2>3
<1> QED BY <1>1, InvHolds, PTL

\* A run that had the ledger to itself presents nothing again (cli.py:80-82).
THEOREM ReportedOnce == Spec => []NeverReportedTwice
<1>1. Inv => NeverReportedTwice
  BY DEF Inv, NotedInv, AloneInv, NeverReportedTwice
<1> QED BY <1>1, InvHolds, PTL

\* What the latest files hold, history/ holds too, unless another run with the same stamp wrote
\* it over (store.py:65-74).
THEOREM LatestKeptInHistory == Spec => []LatestInHistory
<1>1. Inv => LatestInHistory
  <2>1. SUFFICES ASSUME Inv, NEW s \in Suffix, NEW r \in Run, r = shelf[<<"latest", s>>]
                 PROVE  Archived(r) \/ Shared(r)
    BY DEF LatestInHistory
  <2>2. Presented(r)
    BY <2>1 DEF Inv, HistoryInv, Presented
  <2> QED BY <2>1, <2>2, PresentedIsThere DEF Inv
<1> QED BY <1>1, InvHolds, PTL

-----------------------------------------------------------------------------
(***************************************************************************)
(* A file torn for good, and the end of every run.                         *)
(***************************************************************************)
\* The points at which a run is about to rewrite a file, or has it open.
Rewriting(f) == IF f = "papers" THEN {"save", "saving"} ELSE {"mark", "marking"}

\* A file does not parse, and no run holds what could replace it.
Ruined(f) == f \in torn /\ \A r \in Run : pc[r] \notin Rewriting(f)

\* The ledger file named f.
Held(f) == IF f = "papers" THEN papers ELSE seen

\* How many points a run may still pass.
PointsLeft(point) ==
  CASE point = "waiting" -> 15 [] point = "fetch" -> 14 [] point = "rank" -> 13
    [] point = "merge" -> 12 [] point = "save" -> 11 [] point = "saving" -> 10
    [] point = "look" -> 9 [] point = "mark" -> 8 [] point = "marking" -> 7
    [] point = "digest" -> 6 [] OTHER -> 0

\* How many steps a run may still take: at the last point one for each file of its digest.
StepsLeft(r) == PointsLeft(pc[r]) - (IF pc[r] = "digest" THEN written[r] ELSE 0)

\* What a run does by itself, or dying, leaves it fewer steps; what another does changes
\* nothing about them.
StepsRunOut ==
  \A r \in Run : /\ StepsLeft(r)' <= StepsLeft(r)
                 /\ Advance(r) \/ Dies(r) => StepsLeft(r)' < StepsLeft(r)

\* A run's step at one point, and everything else it leaves where it is.
LEMMA StepsAre ==
  ASSUME TypeOK, HandsInv, NEW r \in Run, Start(r) \/ Advance(r) \/ Dies(r)
  PROVE  /\ \A q \in Run \ {r} : pc'[q] = pc[q] /\ written'[q] = written[q]
         /\ StepsLeft(r) \in Nat /\ StepsLeft(r)' \in Nat /\ StepsLeft(r)' < StepsLeft(r)
<1> USE DEF TypeOK, GoTo
<1>1. CASE Start(r)
  BY <1>1 DEF Start, StepsLeft, PointsLeft
<1>2. CASE Fetch(r)
  BY <1>2 DEF Fetch, StepsLeft, PointsLeft
<1>3. CASE Rank(r)
  BY <1>3 DEF Rank, AfterRanking, HandsInv, StepsLeft, PointsLeft
<1>4. CASE ReadPapers(r)
  BY <1>4 DEF ReadPapers, StepsLeft, PointsLeft
<1>5. CASE OpenPapers(r)
  BY <1>5 DEF OpenPapers, StepsLeft, PointsLeft
<1>6. CASE ClosePapers(r)
  BY <1>6 DEF ClosePapers, StepsLeft, PointsLeft
<1>7. CASE ReadSeen(r)
  BY <1>7 DEF ReadSeen, StepsLeft, PointsLeft
<1>8. CASE OpenSeen(r)
  BY <1>8 DEF OpenSeen, StepsLeft, PointsLeft
<1>9. CASE CloseSeen(r)
  BY <1>9 DEF CloseSeen, HandsInv, StepsLeft, PointsLeft
<1>10. CASE WriteDigest(r)
  <2>1. written[r] \in 0..5 /\ pc[r] = "digest"
    BY <1>10 DEF WriteDigest, HandsInv
  <2>2. /\ written' = [written EXCEPT ![r] = @ + 1]
        /\ written[r] < 5 => pc' = pc
        /\ ~(written[r] < 5) => pc' = [pc EXCEPT ![r] = "over"]
    BY <1>10, <2>1, DigestStep DEF Leaves
  <2> QED
    BY <2>1, <2>2 DEF StepsLeft, PointsLeft
<1>11. CASE ReadsTorn(r)
  <2>1. pc[r] \in {"rank", "merge", "look"}
    BY <1>11 DEF ReadsTorn, Reads
  <2> QED
    BY <1>11, <2>1 DEF ReadsTorn, Stops, Leaves, StepsLeft, PointsLeft
<1>12. CASE Dies(r)
  <2>1. pc[r] = "digest" => written[r] \in 0..5
    BY DEF HandsInv
  <2> QED
    BY <1>12, <2>1 DEF Dies, Stops, Leaves, StepsLeft, PointsLeft
<1> QED
  BY <1>1, <1>2, <1>3, <1>4, <1>5, <1>6, <1>7, <1>8, <1>9, <1>10, <1>11, <1>12 DEF Advance

LEMMA StepsLeftType ==
  ASSUME TypeOK, HandsInv, NEW r \in Run
  PROVE  StepsLeft(r) \in 0..15
<1>1. pc[r] = "digest" => written[r] \in 0..5
  BY DEF TypeOK, HandsInv
<1> QED
  BY <1>1 DEF StepsLeft, PointsLeft, TypeOK

\* A run (cli.py:70-118) takes no more than fifteen steps, whatever other runs do to the files
\* in the meantime: none of its reads or writes is tried again.
THEOREM RunIsBounded ==
  Spec => [](\A r \in Run : StepsLeft(r) \in 0..15) /\ [][StepsRunOut]_vars
<1>1. Inv => \A r \in Run : StepsLeft(r) \in 0..15
  BY StepsLeftType DEF Inv
<1>2. Inv /\ Inv' /\ [Next]_vars => [StepsRunOut]_vars
  <2> SUFFICES ASSUME TypeOK, HandsInv, TypeOK', HandsInv', Next
               PROVE  StepsRunOut
    BY DEF Inv
  <2>1. \A r \in Run : StepsLeft(r) \in Nat
    BY StepsLeftType
  <2>2. CASE Publish
    <3>1. \A r \in Run : StepsLeft(r)' = StepsLeft(r)
      BY <2>2 DEF Publish, StepsLeft
    <3>2. \A r \in Run : ~(Advance(r) \/ Dies(r))
      <4> SUFFICES ASSUME NEW r \in Run, Advance(r) \/ Dies(r) PROVE FALSE
        OBVIOUS
      <4>1. StepsLeft(r)' < StepsLeft(r) /\ StepsLeft(r) \in Nat
        BY StepsAre
      <4> QED
        BY <3>1, <4>1
    <3> QED
      BY <2>1, <3>1, <3>2 DEF StepsRunOut
  <2>3. ASSUME NEW p \in Run, Start(p) \/ Advance(p) \/ Dies(p) PROVE StepsRunOut
    <3>1. /\ StepsLeft(p)' < StepsLeft(p) /\ StepsLeft(p) \in Nat /\ StepsLeft(p)' \in Nat
      BY <2>3, StepsAre
    <3>2. \A q \in Run \ {p} : StepsLeft(q)' = StepsLeft(q)
      <4>1. \A q \in Run \ {p} : pc'[q] = pc[q] /\ written'[q] = written[q]
        BY <2>3, StepsAre
      <4> QED
        BY <4>1 DEF StepsLeft
    <3>3. ASSUME NEW q \in Run \ {p} PROVE ~(Advance(q) \/ Dies(q))
      <4>1. Advance(q) \/ Dies(q) => StepsLeft(q)' < StepsLeft(q) /\ StepsLeft(q) \in Nat
        BY StepsAre
      <4> QED
        BY <3>2, <4>1
    <3> QED
      BY <2>1, <3>1, <3>2, <3>3 DEF StepsRunOut
  <2> QED
    BY <2>2, <2>3 DEF Next
<1> QED
  BY <1>1, <1>2, InvHolds, PTL DEF Spec

\* No step mends a ruined file or touches what it holds.
LEMMA RuinKept ==
  ASSUME TypeOK, NEW f \in File, Ruined(f), [Next]_vars
  PROVE  Ruined(f)' /\ Held(f)' = Held(f)
<1> USE DEF TypeOK, GoTo
<1>1. ASSUME NEW r \in Run, Start(r) \/ Fetch(r) \/ Rank(r)
      PROVE  /\ UNCHANGED <<torn, papers, seen>>
             /\ \E point \in {"fetch", "rank", "merge", "digest"} : pc' = [pc EXCEPT ![r] = point]
  BY <1>1 DEF Start, Fetch, Rank, AfterRanking
<1>2. ASSUME NEW r \in Run, ReadPapers(r) \/ OpenPapers(r) \/ ClosePapers(r)
      PROVE  /\ f = "seen" /\ UNCHANGED seen
             /\ "seen" \in torn => "seen" \in torn'
             /\ \E point \in {"save", "saving", "look"} : pc' = [pc EXCEPT ![r] = point]
  BY <1>2 DEF ReadPapers, OpenPapers, ClosePapers, Ruined, Rewriting
<1>3. ASSUME NEW r \in Run, ReadSeen(r) \/ OpenSeen(r) \/ CloseSeen(r)
      PROVE  /\ f = "papers" /\ UNCHANGED papers
             /\ "papers" \in torn => "papers" \in torn'
             /\ \E point \in {"mark", "marking", "digest"} : pc' = [pc EXCEPT ![r] = point]
  BY <1>3 DEF ReadSeen, OpenSeen, CloseSeen, Ruined, Rewriting
<1>4. ASSUME NEW r \in Run, WriteDigest(r) \/ ReadsTorn(r) \/ Dies(r)
      PROVE  /\ UNCHANGED <<torn, papers, seen>>
             /\ pc' = pc \/ pc' = [pc EXCEPT ![r] = "over"]
  BY <1>4 DEF WriteDigest, ReadsTorn, Dies, Stops, Leaves
<1>5. ASSUME Publish \/ UNCHANGED vars PROVE UNCHANGED <<torn, papers, seen, pc>>
  BY <1>5 DEF Publish
<1>6. CASE \E r \in Run : Start(r) \/ Fetch(r) \/ Rank(r)
  BY <1>1, <1>6 DEF Ruined, Rewriting, Held
<1>7. CASE \E r \in Run : ReadPapers(r) \/ OpenPapers(r) \/ ClosePapers(r)
  BY <1>2, <1>7 DEF Ruined, Rewriting, Held
<1>8. CASE \E r \in Run : ReadSeen(r) \/ OpenSeen(r) \/ CloseSeen(r)
  BY <1>3, <1>8 DEF Ruined, Rewriting, Held
<1>9. CASE \E r \in Run : WriteDigest(r) \/ ReadsTorn(r) \/ Dies(r)
  BY <1>4, <1>9 DEF Ruined, Rewriting, Held
<1>10. CASE Publish \/ UNCHANGED vars
  BY <1>5, <1>10 DEF Ruined, Rewriting, Held
<1> QED
  BY <1>6, <1>7, <1>8, <1>9, <1>10 DEF Next, Advance

\* A file of the ledger that a death or two writers at a time left in pieces (jsonl.py:28-30,
\* 42-45; store.py:77-103) stays so: a run that reads it ends there, and none writes it again,
\* whatever the others do.
THEOREM RuinIsForGood ==
  ASSUME NEW f \in File
  PROVE  Spec => [](Ruined(f) => []Ruined(f)) /\ [][Ruined(f) => Held(f)' = Held(f)]_vars
<1>1. TypeOK /\ Ruined(f) /\ [Next]_vars => Ruined(f)'
  BY RuinKept
<1>2. TypeOK /\ [Next]_vars => [Ruined(f) => Held(f)' = Held(f)]_vars
  BY RuinKept
<1> QED
  BY <1>1, <1>2, TypeCorrect, PTL DEF Spec
=============================================================================
