---------------------------- MODULE CronCalendar ----------------------------
(***************************************************************************)
(* The schedule of a cron loop: cadence.at, a five-field cron expression,  *)
(* becomes the OnCalendar= line of a systemd timer                         *)
(* (src/src/loopcraft/scheduler.py cron_to_oncalendar and what it calls),  *)
(* or is refused.  The manifest is edited and applied again; a calendar    *)
(* systemd does not load fails the install, which puts the earlier timer   *)
(* back (deploy.py install_units).                                         *)
(*                                                                         *)
(* A field is the sequence of its comma-separated tokens.  A weekday by    *)
(* name is its number, as _CRON_DOW_NAMES has it, and a token that is no   *)
(* number is one that is out of bounds.  Padding and punctuation are left  *)
(* out.  When a cron expression is due, and when systemd's calendar        *)
(* elapses, is external: crontab(5) and systemd.time(7).                   *)
(***************************************************************************)
EXTENDS Naturals, Sequences

CONSTANTS
  Crontab,     \* the expressions written in the manifest
  Lowest,      \* _CRON_BOUNDS of the numeric fields
  Highest,
  NoSchedule   \* no expression, or one that has not five fields

Numeric == {"minute", "hour", "dom", "month"}
Token == [base : {"*", "at", "range"}, lo : Nat, hi : Nat, sep : BOOLEAN, step : Nat]
Tokens == Seq(Token) \ {<<>>}
Expression == [Numeric \cup {"dow"} -> Tokens]

ASSUME BoundsAssumption ==
  /\ Lowest \in [Numeric -> Nat] /\ Highest \in [Numeric -> Nat]
  /\ \A f \in Numeric : Lowest[f] <= Highest[f]
ASSUME CrontabAssumption == \A e \in Crontab : e \in Expression /\ e # NoSchedule

\* A moment as cron sees it: Sunday is weekday 0.
Moment == [minute : Lowest["minute"]..Highest["minute"], hour : Lowest["hour"]..Highest["hour"],
           dom : Lowest["dom"]..Highest["dom"], month : Lowest["month"]..Highest["month"],
           weekday : 0..6]

VARIABLES
  at,        \* cadence.at of the manifest
  outcome,   \* how the last apply of it went
  timer,     \* the calendar of the installed timer
  held       \* ghost: the expression that calendar was rendered from

vars == <<at, outcome, timer, held>>

-----------------------------------------------------------------------------
(* The translation. *)

Bare(tok) == tok.base = "*" /\ ~tok.sep
\* spec == "*"
Every(spec) == Len(spec) = 1 /\ Bare(spec[1])

\* _cron_int
InBounds(f, n) == n >= Lowest[f] /\ n <= Highest[f]

NumericRefused(f, tok) ==
  \/ tok.sep /\ tok.step < 1
  \/ tok.base # "*" /\ ~InBounds(f, tok.lo)
  \/ tok.base = "range" /\ (~InBounds(f, tok.hi) \/ tok.lo > tok.hi)

\* A repetition without an end: */n and a/n.
Open(tok) == tok.sep /\ tok.base # "range"

\* mutant: a stepped star starts at nought.
FromNought(f, tok) ==
  LET first == IF tok.base = "*" THEN 0 ELSE tok.lo IN
  [any |-> Bare(tok), open |-> Open(tok), from |-> first,
   by |-> IF tok.sep THEN tok.step ELSE 1,
   to |-> IF tok.base = "range" THEN tok.hi
          ELSE IF tok.base = "at" /\ ~tok.sep THEN tok.lo ELSE Highest[f]]
\* _render_numeric_field, component: a..b, a..b/n, a or a/n.
Component(f, tok) ==
  LET first == IF tok.base = "*" THEN Lowest[f] ELSE tok.lo IN
  [any |-> Bare(tok), open |-> Open(tok), from |-> first,
   by |-> IF tok.sep THEN tok.step ELSE 1,
   to |-> IF tok.base = "range" THEN tok.hi
          ELSE IF tok.base = "at" /\ ~tok.sep THEN tok.lo ELSE Highest[f]]

\* mutant: the weekdays are counted from Monday.
FromMonday(n) == 1 + (n % 7)
\* _CRON_DOW_TO_NAME, a name being its place in systemd's week: Mon is 1 and Sun is 7.
DayName(n) == IF n = 0 THEN 7 ELSE n

\* Neither a star nor a step is taken among weekdays; an order is not asked for.
DowRefused(tok) ==
  tok.sep \/ tok.base = "*" \/ tok.lo > 7 \/ (tok.base = "range" /\ tok.hi > 7)
DowComponent(tok) ==
  [from |-> DayName(tok.lo), to |-> DayName(IF tok.base = "range" THEN tok.hi ELSE tok.lo)]

Refused(e) ==
  \/ e = NoSchedule
  \/ \E f \in Numeric : \E i \in DOMAIN e[f] : NumericRefused(f, e[f][i])
  \/ ~Every(e.dow) /\ \E i \in DOMAIN e.dow : DowRefused(e.dow[i])

\* cron_to_oncalendar: a weekday field of "*" is left out.
OnCalendar(e) ==
  [parts |-> [f \in Numeric |-> [i \in DOMAIN e[f] |-> Component(f, e[f][i])]],
   days |-> IF Every(e.dow) THEN <<>>
            ELSE [i \in DOMAIN e.dow |-> DowComponent(e.dow[i])]]

-----------------------------------------------------------------------------
(* systemd: Monday is the first day of the week, and no range of weekdays wraps; "*" *)
(* stands alone; a repetition without an end must come round at least once before    *)
(* the field ends, where one with an end that it does not reach is its start alone.  *)
(* A weekday and a date must both hold.                                              *)

Loads(cal) ==
  /\ \A f \in Numeric : Len(cal.parts[f]) = 1 \/ \A i \in DOMAIN cal.parts[f] : ~cal.parts[f][i].any
  /\ \A f \in Numeric : \A i \in DOMAIN cal.parts[f] :
       LET part == cal.parts[f][i] IN part.open => part.from + part.by <= part.to
  /\ \A i \in DOMAIN cal.days : cal.days[i].from <= cal.days[i].to

Covers(part, v) == part.from <= v /\ v <= part.to /\ (v - part.from) % part.by = 0

Elapses(cal, t) ==
  /\ \A f \in Numeric : \E i \in DOMAIN cal.parts[f] : Covers(cal.parts[f][i], t[f])
  /\ LET day == IF t.weekday = 0 THEN 7 ELSE t.weekday IN
       cal.days = <<>> \/ \E i \in DOMAIN cal.days : day \in cal.days[i].from..cal.days[i].to

-----------------------------------------------------------------------------
(* cron: the days of the month and of the week are alternatives unless one of them starts *)
(* with a star; Sunday is 0 and 7.                                                        *)

Low(f, tok) == IF tok.base = "*" THEN IF f = "dow" THEN 0 ELSE Lowest[f] ELSE tok.lo
High(f, tok) ==
  CASE tok.base = "range" -> tok.hi
    [] tok.base = "at" /\ ~tok.sep -> tok.lo
    [] OTHER -> IF f = "dow" THEN 7 ELSE Highest[f]
Step(tok) == IF tok.sep THEN tok.step ELSE 1

Picks(f, spec, v) ==
  \E i \in DOMAIN spec : /\ Low(f, spec[i]) <= v /\ v <= High(f, spec[i])
                         /\ (v - Low(f, spec[i])) % Step(spec[i]) = 0
OnDay(spec, w) == Picks("dow", spec, w) \/ (w = 0 /\ Picks("dow", spec, 7))

Due(e, t) ==
  /\ \A f \in {"minute", "hour", "month"} : Picks(f, e[f], t[f])
  /\ IF e.dom[1].base = "*" \/ e.dow[1].base = "*"
     THEN Picks("dom", e.dom, t.dom) /\ OnDay(e.dow, t.weekday)
     ELSE Picks("dom", e.dom, t.dom) \/ OnDay(e.dow, t.weekday)

\* What cron takes.
CronTakes(f, tok) ==
  /\ tok.sep => tok.step >= 1
  /\ tok.base # "*" => IF f = "dow" THEN tok.lo <= 7 ELSE InBounds(f, tok.lo)
  /\ tok.base = "range" => /\ tok.lo <= tok.hi
                           /\ IF f = "dow" THEN tok.hi <= 7 ELSE InBounds(f, tok.hi)
Cron(e) == \A f \in Numeric \cup {"dow"} : \A i \in DOMAIN e[f] : CronTakes(f, e[f][i])

-----------------------------------------------------------------------------
NoTimer == [parts |-> [f \in Numeric |-> <<>>], days |-> <<>>]

Init == at = NoSchedule /\ outcome = "none" /\ timer = NoTimer /\ held = NoSchedule

Edit == at' \in Crontab \cup {NoSchedule} /\ outcome' = "none" /\ UNCHANGED <<timer, held>>

\* apply --install of the loop: render, then install or roll back.
Apply ==
  /\ IF Refused(at)
     THEN outcome' = "refused" /\ UNCHANGED <<timer, held>>
     ELSE IF Loads(OnCalendar(at))
     THEN outcome' = "installed" /\ timer' = OnCalendar(at) /\ held' = at
     ELSE outcome' = "failed" /\ UNCHANGED <<timer, held>>
  /\ UNCHANGED at

Next == Edit \/ Apply

Spec == Init /\ [][Next]_vars

-----------------------------------------------------------------------------
\* A step of cron that comes round at all before its field ends.
ComesRound(f, tok) == Open(tok) => Low(f, tok) + Step(tok) <= Highest[f]

\* What the documentation of the translation names: fixed times, lists, ranges and steps;
\* weekdays or days of the month, not both.  Left out are the expressions of cron that
\* become another calendar, or one systemd does not load: a range of weekdays from a Sunday
\* on, a star in a list, a step among weekdays or one that never comes round.
Plain(e) ==
  /\ Cron(e)
  /\ e.dom[1].base = "*" \/ e.dow[1].base = "*"
  /\ \A f \in Numeric \cup {"dow"} : Every(e[f]) \/ \A i \in DOMAIN e[f] : ~Bare(e[f][i])
  /\ \A f \in Numeric : \A i \in DOMAIN e[f] : ComesRound(f, e[f][i])
  /\ Every(e.dow) \/ \A i \in DOMAIN e.dow :
       LET tok == e.dow[i] IN
         /\ ~tok.sep /\ tok.base # "*"
         /\ tok.base = "range" /\ tok.lo = 0 => tok.hi = 0

\* Safety, cron_to_oncalendar (scheduler.py:226-262): a plain expression that is applied is
\* neither refused nor fails to load, and its timer elapses when the expression is due and
\* at no other moment.
FiresAsCron ==
  outcome # "none" /\ at # NoSchedule /\ Plain(at)
    => outcome = "installed" /\ \A t \in Moment : Elapses(timer, t) <=> Due(at, t)

\* Safety, cron_to_oncalendar (scheduler.py:226-262): whatever expression of cron is
\* applied, its timer elapses at no moment when it is not due, though it may miss some.
NeverUnasked ==
  held # NoSchedule /\ Cron(held) => \A t \in Moment : Elapses(timer, t) => Due(held, t)
=============================================================================
