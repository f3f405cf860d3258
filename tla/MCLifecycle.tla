---------------------------- MODULE MCLifecycle -----------------------------
(* An instance of Lifecycle for TLC: configurations that differ in         *)
(* everything a reload changes, and two that end the process.              *)
EXTENDS Lifecycle

File(decryption, keys, path, writers) ==
  [decryption |-> decryption, keys |-> keys, path |-> path, writers |-> writers]

MCFiles ==
  {File(TRUE, TRUE, FALSE, <<2>>), File(FALSE, TRUE, TRUE, <<2, 1>>),
   File(TRUE, FALSE, FALSE, <<2>>), File(FALSE, TRUE, FALSE, <<1, BadWriter>>)}
=============================================================================
