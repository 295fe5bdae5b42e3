---------------------------- MODULE MCSlaCalculator ----------------------------
(* A week of three days, the last of them free, of three hours of two minutes. *)
EXTENDS SlaCalculator

MCCalendars == {[startHour |-> h[1], endHour |-> h[2], holidays |-> d, midnight |-> m] :
                h \in {<<0, 1>>, <<0, 3>>, <<1, 2>>, <<1, 3>>, <<2, 2>>, <<2, 1>>},
                d \in {{}, {1}, {3}}, m \in {0, 3}}
MCWeekend == {2}
MCStarts == {0, 1, 3, 6, 9, 12, 17, 22, 31}
MCTotals == {1, 2}
MCDelays == {-7, -3, -1, 0, 1, 2, 3, 5, 14}
MCPauses == {[after |-> 0, length |-> 0], [after |-> 2, length |-> 2],
             [after |-> 1, length |-> 3], [after |-> 1, length |-> 12]}
=============================================================================
