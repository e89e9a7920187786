-------------------------- MODULE MCQuotaManager --------------------------
(* Instances of QuotaManager for TLC.  A day is one hour long, a week two   *)
(* and a month four: every hour ends a day, and none of them the month.     *)
EXTENDS QuotaManager, TLC
CONSTANTS r1, r2

MCLength == <<1, 2, 4>>
\* Two requests around one hour, or one request around two.
MCStarts == {<<0, 1>>, <<1, 2>>}
MCFirstHour == {<<0, 2>>}
MCOneLimit == {<<1, 0, 1>>}
MCTwoLimits == {<<1, 0, 2>>, <<2, 0, 0>>}
===========================================================================
