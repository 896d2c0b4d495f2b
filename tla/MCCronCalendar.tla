--------------------------- MODULE MCCronCalendar ---------------------------
(***************************************************************************)
(* Instances of CronCalendar: short hours, days and years, weeks of seven  *)
(* days, and expressions in which one field, or the days of the month and  *)
(* of the week, are other than a star.  Some of their steps come round     *)
(* before the field ends and some, as an hour of */24 would, do not.       *)
(***************************************************************************)
EXTENDS CronCalendar

CONSTANTS MaxMinute, MaxHour, MaxDom, MaxMonth

ShortLowest == [minute |-> 0, hour |-> 0, dom |-> 1, month |-> 1]
ShortHighest == [minute |-> MaxMinute, hour |-> MaxHour, dom |-> MaxDom, month |-> MaxMonth]

At(n) == [base |-> "at", lo |-> n, hi |-> 0, sep |-> FALSE, step |-> 0]
Between(m, n) == [base |-> "range", lo |-> m, hi |-> n, sep |-> FALSE, step |-> 0]
Star == [base |-> "*", lo |-> 0, hi |-> 0, sep |-> FALSE, step |-> 0]
By(tok, n) == [tok EXCEPT !.sep = TRUE, !.step = n]

Plainly(values) == {Star} \cup {At(m) : m \in values} \cup {Between(m, n) : m, n \in values}
TokensOf(values, steps) ==
  Plainly(values) \cup {By(tok, n) : tok \in Plainly(values), n \in steps}
Lists(tokens) == {<<tok>> : tok \in tokens}
Pairs(tokens) == {<<a, b>> : a, b \in tokens}

AllStars == [f \in Numeric \cup {"dow"} |-> <<Star>>]

Minutes == Lists(TokensOf({0, 2, MaxMinute + 1}, {0, 2})) \cup Pairs({Star, By(Star, 2), At(1), Between(0, 1)})
Doms == Lists({Star, By(Star, 2), At(0), By(At(1), 2), Between(1, 2), Between(2, 1)})
          \cup {<<At(2), Star>>, <<By(Star, 2), At(2)>>, <<At(2), By(Star, 2)>>}
Dows == Lists({By(Star, 2), By(Between(1, 5), 2)} \cup Plainly({0, 1, 5, 7, 8}))
          \cup Pairs({Star, At(0), At(7), Between(1, 2)})
SomeDows == Lists({Star, At(0), Between(1, 5), Between(0, 7)})

ShortCrontab ==
  {[AllStars EXCEPT !["minute"] = s] : s \in Minutes}
  \cup {[AllStars EXCEPT ![f] = <<tok>>] :
           f \in {"hour", "month"},
           tok \in {At(0), At(1), By(Star, 1), By(Star, 2), By(At(1), 1), By(Between(0, 1), 2)}}
  \cup {[AllStars EXCEPT !["dow"] = s] : s \in Dows}
  \cup {[AllStars EXCEPT !["dom"] = s, !["dow"] = d] : s \in Doms, d \in SomeDows}
=============================================================================
