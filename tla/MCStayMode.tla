----------------------------- MODULE MCStayMode -----------------------------
(* The stay mode on small instances.                                        *)
EXTENDS StayModeProps, TLC

\* Goroutines and devices are interchangeable: for safety runs only.
Symmetry == Permutations(Gor) \cup Permutations(Devices)

\* Everything but leaving: without inbound commands no goroutine, no fairness
\* condition and no property of the run depends on it.
WithoutLeaving == <<tableVars, mainPc, monVars, supVars, gor, signalled, told>>
=============================================================================
