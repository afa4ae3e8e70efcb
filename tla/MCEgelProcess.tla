---------------------------- MODULE MCEgelProcess ----------------------------
(***************************************************************************)
(* Small instances of EgelProcess.  The programs are sum 0, sum 1, ... of  *)
(* examples/proc.eg modulo 3, so that an answer tells which inputs it is   *)
(* the sum of.                                                             *)
(***************************************************************************)
EXTENDS EgelProcess, FiniteSets

MCSums == 0..2

MCSum == [a \in MCSums \X MCSums |->
            LET z == (a[1] + a[2]) % 3 IN {<<z, z>>}]

\* raises an exception on its first 0
MCThrows == [a \in MCSums \X MCSums |-> IF a[2] = 0 THEN {0} ELSE {}]
MCNone   == [a \in MCSums \X MCSums |-> {}]

\* gives no triple when the sum is 2 and the input 2
MCMalformed == {<<2, 2>>}

\* a program that may also diverge: sum 1 on 0
MCDiverging == {<<1, 0>>}
=============================================================================
