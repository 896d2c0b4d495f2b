------------------------- MODULE CronCalendarProofs -------------------------
(***************************************************************************)
(* Proofs about CronCalendar, for every set of expressions and every       *)
(* bounds of the fields: a numeric field picks what its calendar component *)
(* covers; weekdays do where no range starts from a Sunday; and a timer is *)
(* always the rendering of the expression it was installed for.            *)
(***************************************************************************)
EXTENDS CronCalendar, TLAPS

Field == Numeric \cup {"dow"}

\* The bounds of a field are naturals, in order.
LEMMA BoundsType ==
  ASSUME NEW f \in Numeric
  PROVE  Lowest[f] \in Nat /\ Highest[f] \in Nat /\ Lowest[f] <= Highest[f]
BY BoundsAssumption

\* What a token of an expression is.
LEMMA TokenType ==
  ASSUME NEW e \in Expression, NEW f \in Field, NEW i \in DOMAIN e[f]
  PROVE  /\ e[f][i] \in Token
         /\ e[f][i].base \in {"*", "at", "range"} /\ e[f][i].sep \in BOOLEAN
         /\ e[f][i].lo \in Nat /\ e[f][i].hi \in Nat /\ e[f][i].step \in Nat
<1>1. e[f] \in Seq(Token)
  BY DEF Expression, Tokens, Field
<1>2. e[f][i] \in Token
  BY <1>1
<1> QED
  BY <1>2 DEF Token

\* A field has a first token.
LEMMA FieldNotEmpty ==
  ASSUME NEW e \in Expression, NEW f \in Field
  PROVE  e[f] \in Seq(Token) /\ e[f] # <<>> /\ Len(e[f]) \in Nat /\ 1 \in DOMAIN e[f]
         /\ DOMAIN e[f] = 1..Len(e[f])
BY DEF Expression, Tokens, Field

\* One token of cron and its component stand for the same values.
LEMMA ComponentAlike ==
  ASSUME NEW f \in Numeric, NEW tok \in Token, CronTakes(f, tok),
         NEW v \in Lowest[f]..Highest[f]
  PROVE  Covers(Component(f, tok), v)
           <=> /\ Low(f, tok) <= v /\ v <= High(f, tok)
               /\ (v - Low(f, tok)) % Step(tok) = 0
<1>1. f # "dow" /\ Lowest[f] \in Nat /\ Highest[f] \in Nat
  BY BoundsType DEF Numeric
<1>2. tok.base \in {"*", "at", "range"} /\ tok.lo \in Nat /\ tok.hi \in Nat
        /\ tok.sep \in BOOLEAN /\ tok.step \in Nat
  BY DEF Token
<1>3. Component(f, tok).from = Low(f, tok)
  BY <1>1 DEF Component, Low
<1>4. Component(f, tok).by = Step(tok)
  BY DEF Component, Step
<1>5. Component(f, tok).to = High(f, tok)
  BY <1>1, <1>2 DEF Component, High
<1> QED
  BY <1>3, <1>4, <1>5 DEF Covers

\* A field of cron and its components stand for the same values.
LEMMA NumericAlike ==
  ASSUME NEW e \in Expression, Cron(e), NEW f \in Numeric, NEW v \in Lowest[f]..Highest[f]
  PROVE  (\E i \in DOMAIN OnCalendar(e).parts[f] : Covers(OnCalendar(e).parts[f][i], v))
           <=> Picks(f, e[f], v)
<1>1. OnCalendar(e).parts[f] = [i \in DOMAIN e[f] |-> Component(f, e[f][i])]
  BY DEF OnCalendar
<1>2. \A i \in DOMAIN e[f] : Covers(Component(f, e[f][i]), v)
        <=> /\ Low(f, e[f][i]) <= v /\ v <= High(f, e[f][i])
            /\ (v - Low(f, e[f][i])) % Step(e[f][i]) = 0
  <2>1. TAKE i \in DOMAIN e[f]
  <2>2. e[f][i] \in Token
    BY TokenType DEF Field
  <2>3. CronTakes(f, e[f][i])
    BY DEF Cron
  <2> QED
    BY <2>2, <2>3, ComponentAlike
<1> QED
  BY <1>1, <1>2 DEF Picks

\* The place a weekday of cron has in systemd's week.
Place(w) == IF w = 0 THEN 7 ELSE w

\* A weekday of cron is due on the day its name stands for.
LEMMA TokenDay ==
  ASSUME NEW tok \in Token, CronTakes("dow", tok), ~DowRefused(tok),
         NEW w \in 0..6
  PROVE  LET part == DowComponent(tok)
             picks(v) == /\ Low("dow", tok) <= v /\ v <= High("dow", tok)
                         /\ (v - Low("dow", tok)) % Step(tok) = 0
         IN /\ part.from <= part.to /\ Place(w) \in part.from..part.to
                 => picks(w) \/ (w = 0 /\ picks(7))
            /\ (tok.base = "range" /\ tok.lo = 0 => tok.hi = 0)
                 => /\ part.from <= part.to
                    /\ picks(w) \/ (w = 0 /\ picks(7)) => Place(w) \in part.from..part.to
<1>1. tok.base \in {"at", "range"} /\ tok.lo \in 0..7 /\ tok.hi \in Nat /\ tok.sep = FALSE
  BY DEF Token, DowRefused
<1>2. Low("dow", tok) = tok.lo /\ Step(tok) = 1
  BY <1>1 DEF Low, Step
<1>3. CASE tok.base = "at"
  <2>1. High("dow", tok) = tok.lo
    BY <1>1, <1>3 DEF High
  <2>2. DowComponent(tok).from = DayName(tok.lo) /\ DowComponent(tok).to = DayName(tok.lo)
    BY <1>3 DEF DowComponent
  <2> QED
    BY <1>1, <1>2, <1>3, <2>1, <2>2 DEF DayName, Place
<1>4. CASE tok.base = "range"
  <2>1. High("dow", tok) = tok.hi
    BY <1>4 DEF High
  <2>2. DowComponent(tok).from = DayName(tok.lo) /\ DowComponent(tok).to = DayName(tok.hi)
    BY <1>4 DEF DowComponent
  <2>3. tok.lo <= tok.hi /\ tok.hi \in 0..7
    BY <1>1, <1>4 DEF CronTakes
  <2> QED
    BY <1>1, <1>2, <1>4, <2>1, <2>2, <2>3 DEF DayName, Place
<1> QED
  BY <1>1, <1>3, <1>4

\* systemd's day is among the calendar's.
DayElapses(cal, w) == cal.days = <<>> \/ \E i \in DOMAIN cal.days : Place(w) \in cal.days[i].from..cal.days[i].to

\* A weekday field of "*" is every day in both.
LEMMA EveryDay ==
  ASSUME NEW e \in Expression, Every(e.dow), NEW w \in 0..6
  PROVE  DayElapses(OnCalendar(e), w) /\ OnDay(e.dow, w)
<1>1. OnCalendar(e).days = <<>>
  BY DEF OnCalendar
<1>2. "dow" \in Field
  BY DEF Field
<1>3. 1 \in DOMAIN e.dow
  BY <1>2, FieldNotEmpty
<1>4. Low("dow", e.dow[1]) = 0 /\ High("dow", e.dow[1]) = 7 /\ Step(e.dow[1]) = 1
  BY DEF Every, Bare, Low, High, Step
<1>5. Picks("dow", e.dow, w)
  BY <1>3, <1>4 DEF Picks
<1> QED
  BY <1>1, <1>5 DEF DayElapses, OnDay

\* The days of a calendar whose weekday field is a list.
LEMMA ListedDays ==
  ASSUME NEW e \in Expression, ~Every(e.dow)
  PROVE  /\ DOMAIN OnCalendar(e).days = DOMAIN e.dow
         /\ \A i \in DOMAIN e.dow : OnCalendar(e).days[i] = DowComponent(e.dow[i])
         /\ OnCalendar(e).days # <<>>
<1>1. OnCalendar(e).days = [i \in DOMAIN e.dow |-> DowComponent(e.dow[i])]
  BY DEF OnCalendar
<1>2. 1 \in DOMAIN e.dow
  BY FieldNotEmpty DEF Field
<1>3. DOMAIN OnCalendar(e).days # {}
  BY <1>1, <1>2
<1> QED
  BY <1>1, <1>3

\* Weekdays of an accepted calendar that loads are weekdays of the expression.
LEMMA DaysSound ==
  ASSUME NEW e \in Expression, e # NoSchedule, Cron(e), ~Refused(e), Loads(OnCalendar(e)),
         NEW w \in 0..6, DayElapses(OnCalendar(e), w)
  PROVE  OnDay(e.dow, w)
<1>1. CASE Every(e.dow)
  BY <1>1, EveryDay
<1>2. CASE ~Every(e.dow)
  <2>1. PICK i \in DOMAIN e.dow : Place(w) \in DowComponent(e.dow[i]).from..DowComponent(e.dow[i]).to
    BY <1>2, ListedDays DEF DayElapses
  <2>2. e.dow[i] \in Token /\ CronTakes("dow", e.dow[i])
    BY TokenType DEF Field, Cron
  <2>3. ~DowRefused(e.dow[i])
    BY <1>2 DEF Refused
  <2>4. DowComponent(e.dow[i]).from <= DowComponent(e.dow[i]).to
    BY <1>2, ListedDays DEF Loads
  <2>5. \/ Low("dow", e.dow[i]) <= w /\ w <= High("dow", e.dow[i])
           /\ (w - Low("dow", e.dow[i])) % Step(e.dow[i]) = 0
        \/ w = 0 /\ Low("dow", e.dow[i]) <= 7 /\ 7 <= High("dow", e.dow[i])
             /\ (7 - Low("dow", e.dow[i])) % Step(e.dow[i]) = 0
    BY <2>1, <2>2, <2>3, <2>4, TokenDay
  <2> QED
    BY <2>5 DEF OnDay, Picks
<1> QED
  BY <1>1, <1>2

\* Weekdays of a plain expression are weekdays of its calendar.
LEMMA DaysComplete ==
  ASSUME NEW e \in Expression, Plain(e), ~Refused(e), NEW w \in 0..6, OnDay(e.dow, w)
  PROVE  DayElapses(OnCalendar(e), w)
<1>1. CASE Every(e.dow)
  BY <1>1, EveryDay
<1>2. CASE ~Every(e.dow)
  <2>1. PICK i \in DOMAIN e.dow :
          \/ Low("dow", e.dow[i]) <= w /\ w <= High("dow", e.dow[i])
             /\ (w - Low("dow", e.dow[i])) % Step(e.dow[i]) = 0
          \/ w = 0 /\ Low("dow", e.dow[i]) <= 7 /\ 7 <= High("dow", e.dow[i])
               /\ (7 - Low("dow", e.dow[i])) % Step(e.dow[i]) = 0
    BY DEF OnDay, Picks
  <2>2. e.dow[i] \in Token /\ CronTakes("dow", e.dow[i])
    BY TokenType DEF Field, Cron, Plain
  <2>3. ~DowRefused(e.dow[i])
    BY <1>2 DEF Refused
  <2>4. e.dow[i].base = "range" /\ e.dow[i].lo = 0 => e.dow[i].hi = 0
    BY <1>2 DEF Plain
  <2>5. Place(w) \in DowComponent(e.dow[i]).from..DowComponent(e.dow[i]).to
    BY <2>1, <2>2, <2>3, <2>4, TokenDay
  <2> QED
    BY <1>2, <2>5, ListedDays DEF DayElapses
<1> QED
  BY <1>1, <1>2

\* A plain expression is translated, into a calendar systemd loads.
LEMMA PlainLoads ==
  ASSUME NEW e \in Expression, e # NoSchedule, Plain(e)
  PROVE  ~Refused(e) /\ Loads(OnCalendar(e))
<1>1. \A f \in Numeric : \A i \in DOMAIN e[f] : ~NumericRefused(f, e[f][i])
  <2>1. TAKE f \in Numeric
  <2>2. TAKE i \in DOMAIN e[f]
  <2>3. e[f][i] \in Token /\ CronTakes(f, e[f][i]) /\ f # "dow"
    BY TokenType DEF Field, Plain, Cron, Numeric
  <2>4. Lowest[f] \in Nat /\ Highest[f] \in Nat
    BY BoundsType
  <2>5. e[f][i].base = "range" => e[f][i].base # "*"
    OBVIOUS
  <2> QED
    BY <2>3, <2>4, <2>5 DEF CronTakes, NumericRefused, Token, InBounds
<1>2. ~Every(e.dow) => \A i \in DOMAIN e.dow : ~DowRefused(e.dow[i])
  <2>1. SUFFICES ASSUME ~Every(e.dow), NEW i \in DOMAIN e.dow PROVE ~DowRefused(e.dow[i])
    OBVIOUS
  <2>2. e.dow[i] \in Token /\ CronTakes("dow", e.dow[i])
    BY TokenType DEF Field, Plain, Cron
  <2>3. ~e.dow[i].sep /\ e.dow[i].base # "*"
    BY <2>1 DEF Plain
  <2> QED
    BY <2>2, <2>3 DEF CronTakes, DowRefused, Token
<1>3. \A f \in Numeric :
        Len(OnCalendar(e).parts[f]) = 1 \/ \A i \in DOMAIN OnCalendar(e).parts[f] : ~OnCalendar(e).parts[f][i].any
  <2>1. TAKE f \in Numeric
  <2>2. OnCalendar(e).parts[f] = [i \in DOMAIN e[f] |-> Component(f, e[f][i])]
    BY DEF OnCalendar
  <2>3. CASE Every(e[f])
    <3>1. DOMAIN e[f] = 1..1
      BY <2>3, FieldNotEmpty DEF Every, Field
    <3> QED
      BY <2>2, <3>1
  <2>4. CASE \A i \in DOMAIN e[f] : ~Bare(e[f][i])
    BY <2>2, <2>4 DEF Component
  <2> QED
    BY <2>3, <2>4 DEF Plain
<1>4. \A i \in DOMAIN OnCalendar(e).days : OnCalendar(e).days[i].from <= OnCalendar(e).days[i].to
  <2>1. CASE Every(e.dow)
    BY <2>1 DEF OnCalendar
  <2>2. CASE ~Every(e.dow)
    <3>1. SUFFICES ASSUME NEW i \in DOMAIN e.dow
                   PROVE  DowComponent(e.dow[i]).from <= DowComponent(e.dow[i]).to
      BY <2>2, ListedDays
    <3>2. e.dow[i] \in Token /\ CronTakes("dow", e.dow[i])
      BY TokenType DEF Field, Plain, Cron
    <3>3. e.dow[i].base = "range" /\ e.dow[i].lo = 0 => e.dow[i].hi = 0
      BY <2>2 DEF Plain
    <3>4. 0 \in 0..6
      OBVIOUS
    <3> QED
      BY <2>2, <1>2, <3>2, <3>3, <3>4, TokenDay
  <2> QED
    BY <2>1, <2>2
<1>5. ~Refused(e)
  BY <1>1, <1>2 DEF Refused
<1>6. ASSUME NEW f \in Numeric, NEW i \in DOMAIN OnCalendar(e).parts[f],
             OnCalendar(e).parts[f][i].open
      PROVE  OnCalendar(e).parts[f][i].from + OnCalendar(e).parts[f][i].by
               <= OnCalendar(e).parts[f][i].to
  <2>1. OnCalendar(e).parts[f] = [j \in DOMAIN e[f] |-> Component(f, e[f][j])]
    BY DEF OnCalendar
  <2>2. i \in DOMAIN e[f] /\ OnCalendar(e).parts[f][i] = Component(f, e[f][i])
    BY <2>1
  <2>3. Open(e[f][i])
    BY <1>6, <2>2 DEF Component
  <2>4. Low(f, e[f][i]) + Step(e[f][i]) <= Highest[f]
    BY <2>2, <2>3 DEF Plain, ComesRound
  <2>5. Component(f, e[f][i]).from = Low(f, e[f][i]) /\ f # "dow"
    BY DEF Component, Low, Numeric
  <2>6. Component(f, e[f][i]).by = Step(e[f][i])
    BY DEF Component, Step
  <2>7. Component(f, e[f][i]).to = Highest[f]
    BY <2>3 DEF Component, Open
  <2> QED
    BY <2>2, <2>4, <2>5, <2>6, <2>7
<1> QED
  BY <1>3, <1>4, <1>5, <1>6 DEF Loads

\* A moment's fields are within their bounds.
LEMMA MomentType ==
  ASSUME NEW t \in Moment
  PROVE  /\ \A f \in Numeric : t[f] \in Lowest[f]..Highest[f]
         /\ t.weekday \in 0..6
BY DEF Moment, Numeric

\* When a calendar elapses, in the terms of cron.
LEMMA ElapsesAsPicked ==
  ASSUME NEW e \in Expression, Cron(e), NEW t \in Moment
  PROVE  Elapses(OnCalendar(e), t)
           <=> (\A f \in Numeric : Picks(f, e[f], t[f])) /\ DayElapses(OnCalendar(e), t.weekday)
<1>1. \A f \in Numeric : (\E i \in DOMAIN OnCalendar(e).parts[f] : Covers(OnCalendar(e).parts[f][i], t[f]))
                           <=> Picks(f, e[f], t[f])
  BY NumericAlike, MomentType
<1> QED
  BY <1>1 DEF Elapses, DayElapses, Place

\* The theorem of the translation: elapsing implies being due.
LEMMA Sound ==
  ASSUME NEW e \in Expression, e # NoSchedule, Cron(e), ~Refused(e), Loads(OnCalendar(e)),
         NEW t \in Moment, Elapses(OnCalendar(e), t)
  PROVE  Due(e, t)
<1>1. \A f \in Numeric : Picks(f, e[f], t[f])
  BY ElapsesAsPicked
<1>2. DayElapses(OnCalendar(e), t.weekday)
  BY ElapsesAsPicked
<1>3. OnDay(e.dow, t.weekday)
  BY <1>2, DaysSound, MomentType
<1>4. Picks("dom", e.dom, t.dom)
  BY <1>1 DEF Numeric
<1> QED
  BY <1>1, <1>3, <1>4 DEF Due, Numeric

\* And being due implies elapsing, where the expression is plain.
LEMMA Complete ==
  ASSUME NEW e \in Expression, e # NoSchedule, Plain(e), NEW t \in Moment, Due(e, t)
  PROVE  Elapses(OnCalendar(e), t)
<1>1. ~Refused(e) /\ Cron(e)
  BY PlainLoads DEF Plain
<1>2. Picks("dom", e.dom, t.dom) /\ OnDay(e.dow, t.weekday)
  BY DEF Due, Plain
<1>3. \A f \in Numeric : Picks(f, e[f], t[f])
  BY <1>2 DEF Due, Numeric
<1>4. DayElapses(OnCalendar(e), t.weekday)
  BY <1>1, <1>2, DaysComplete, MomentType
<1> QED
  BY <1>1, <1>3, <1>4, ElapsesAsPicked

-----------------------------------------------------------------------------
\* The timer renders the expression it was installed for, which an apply accepted, and the
\* outcome of the last apply is that of the expression in the manifest.
Inv ==
  /\ at \in Crontab \cup {NoSchedule} /\ held \in Crontab \cup {NoSchedule}
  /\ held # NoSchedule => ~Refused(held) /\ timer = OnCalendar(held) /\ Loads(timer)
  /\ outcome \in {"none", "refused", "failed", "installed"}
  /\ outcome = "refused" => Refused(at)
  /\ outcome = "failed" => ~Loads(OnCalendar(at))
  /\ outcome = "installed" => held = at

LEMMA InvInductive == Spec => []Inv
<1>1. Init => Inv
  BY DEF Init, Inv
<1>2. Inv /\ [Next]_vars => Inv'
  <2>1. SUFFICES ASSUME Inv, [Next]_vars PROVE Inv'
    OBVIOUS
  <2>2. CASE Edit
    BY <2>1, <2>2 DEF Inv, Edit
  <2>3. CASE Apply
    <3>1. CASE Refused(at)
      BY <2>1, <2>3, <3>1 DEF Inv, Apply
    <3>2. CASE ~Refused(at) /\ Loads(OnCalendar(at))
      BY <2>1, <2>3, <3>2 DEF Inv, Apply
    <3>3. CASE ~Refused(at) /\ ~Loads(OnCalendar(at))
      BY <2>1, <2>3, <3>3 DEF Inv, Apply
    <3> QED
      BY <3>1, <3>2, <3>3
  <2>4. CASE UNCHANGED vars
    BY <2>1, <2>4 DEF Inv, vars
  <2> QED
    BY <2>1, <2>2, <2>3, <2>4 DEF Next
<1> QED
  BY <1>1, <1>2, PTL DEF Spec

\* A plain expression that is applied is installed, and its timer elapses exactly when cron
\* would have been due (scheduler.py cron_to_oncalendar), whatever the expressions and the
\* bounds of the fields.
THEOREM TranslationExact == Spec => []FiresAsCron
<1>1. Inv => FiresAsCron
  <2>1. SUFFICES ASSUME Inv, outcome # "none", at # NoSchedule, Plain(at)
                 PROVE  outcome = "installed" /\ \A t \in Moment : Elapses(timer, t) <=> Due(at, t)
    BY DEF FiresAsCron
  <2>2. at \in Expression
    BY <2>1, CrontabAssumption DEF Inv
  <2>3. ~Refused(at) /\ Loads(OnCalendar(at)) /\ Cron(at)
    BY <2>1, <2>2, PlainLoads DEF Plain
  <2>4. outcome = "installed"
    BY <2>1, <2>3 DEF Inv
  <2>5. timer = OnCalendar(at)
    BY <2>1, <2>4 DEF Inv
  <2>6. \A t \in Moment : Elapses(OnCalendar(at), t) <=> Due(at, t)
    BY <2>1, <2>2, <2>3, Sound, Complete
  <2> QED
    BY <2>4, <2>5, <2>6
<1> QED
  BY <1>1, InvInductive, PTL

\* No timer elapses when the expression of cron it was rendered from is not due
\* (scheduler.py cron_to_oncalendar), whatever the expressions and the bounds of the fields.
THEOREM TranslationSound == Spec => []NeverUnasked
<1>1. Inv => NeverUnasked
  <2>1. SUFFICES ASSUME Inv, held # NoSchedule, Cron(held), NEW t \in Moment, Elapses(timer, t)
                 PROVE  Due(held, t)
    BY DEF NeverUnasked
  <2>2. held \in Expression
    BY <2>1, CrontabAssumption DEF Inv
  <2>3. ~Refused(held) /\ timer = OnCalendar(held) /\ Loads(OnCalendar(held))
    BY <2>1 DEF Inv
  <2> QED
    BY <2>1, <2>2, <2>3, Sound
<1> QED
  BY <1>1, InvInductive, PTL
=============================================================================
