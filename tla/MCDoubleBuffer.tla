---------------------------- MODULE MCDoubleBuffer ----------------------------
(* Instance of DoubleBuffer for TLC: the threads are model values of the    *)
(* configuration, two payloads besides the blank one, two words a payload.  *)
EXTENDS DoubleBuffer

MCValues == {"zero", "a", "b"}
MCZero == "zero"
===============================================================================
