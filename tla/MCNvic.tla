------------------------------- MODULE MCNvic -------------------------------
(* Nvic on small instances: values for its constants that a .cfg cannot     *)
(* write down.                                                              *)
EXTENDS Nvic

\* The USB interrupt and one EXTI line are enough to have two external IRQs
\* with an order between them.
TwoIrqs == {6, 67}

Sizes == {1, 3}
=============================================================================
