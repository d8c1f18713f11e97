------------------------------- MODULE MCApBoot -------------------------------
(* Nine processors for TLC, one of them disabled; ids are not in list order.   *)
EXTENDS ApBoot

Cpu(id) == [apic_id |-> id, disabled |-> FALSE]
MCProcessors ==
  <<Cpu(2), Cpu(1), [apic_id |-> 5, disabled |-> TRUE], Cpu(4), Cpu(3), Cpu(6), Cpu(8), Cpu(7), Cpu(9)>>
===============================================================================
