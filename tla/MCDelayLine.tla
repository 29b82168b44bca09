---------------------------- MODULE MCDelayLine ----------------------------
(* Instances of DelayLine small enough for TLC: a ring of four slots.       *)
EXTENDS DelayLine

Setting(d, w, c, e, l) ==
  [delay |-> d, window |-> w, onChange |-> c, extra |-> e, limited |-> l]

\* undelayed, delayed, and delayed with a window; change-only with one extra
\* resend, and continuous; with and without the rate limit
MCConfigs ==
  {Setting(0, 1, TRUE, 1, FALSE), Setting(2, 0, TRUE, 1, TRUE), Setting(1, 1, FALSE, 0, FALSE)}

\* the settings page changes the delay while core 0 searches
MCDelays == {0, 2}
=============================================================================
