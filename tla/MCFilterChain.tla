--------------------------- MODULE MCFilterChain ---------------------------
(* pthres and debounce with pressures below, within and above the bounds   *)
(* and gaps that fill the quiet time only together or alone; the default   *)
(* chain of etc/ts.conf; each of its other filters; and skip with several  *)
(* parameters.                                                             *)
EXTENDS FilterChain

Conf(chain, pos, pressures, gaps, batch, memory) ==
  [chain |-> chain, mt |-> FALSE, pos |-> [finger \in {0} |-> pos], pressures |-> pressures,
   gaps |-> gaps, nhead |-> 0, ntail |-> 0, batch |-> batch, memory |-> memory]

\* the same read with ts_read_mt, from two fingers
ConfMt(chain, pos, pressures, gaps, batch, memory) ==
  [Conf(chain, {}, pressures, gaps, batch, memory) EXCEPT !.mt = TRUE, !.pos = pos]

Fingers(pos0, pos1) == [finger \in {0, 1} |-> IF finger = 0 THEN pos0 ELSE pos1]

MCConfs ==
  {Conf(<<"pthres", "debounce">>, {0, 1}, {0, 1, 2, 9}, {1, 3}, 3, 1),
   Conf(<<"pthres", "dejitter", "linear">>, {0, 3, 9}, {0, 1, 4}, {1}, 1, 4),
   Conf(<<"median", "linear">>, {1, 3, 9}, {0, 1, 4}, {1}, 1, 3),
   Conf(<<"debounce", "variance">>, {1, 3, 9}, {0, 4}, {1, 3}, 1, 3)}
  \cup {[Conf(<<"skip">>, {0, 1}, {0, 4}, {1}, 1, 8) EXCEPT !.nhead = h, !.ntail = t] :
          h \in 0 .. 2, t \in 0 .. 3}
  \cup {ConfMt(<<"debounce">>, Fingers({0}, {1}), {0, 4}, {1, 3}, 3, 1),
        ConfMt(<<"dejitter", "linear">>, Fingers({0, 3}, {6}), {0, 4}, {1}, 1, 4)}

MCMTConfs ==
  {ConfMt(<<"pthres">>, Fingers({0, 1}, {0, 1}), {0, 1, 2, 9}, {1}, 3, 1),
   ConfMt(<<"median">>, Fingers({1, 3}, {1, 3}), {0, 4}, {1}, 1, 3)}

MCSlots == {0, 1}
MCScale == -1
MCJunk == {-9}
=============================================================================
