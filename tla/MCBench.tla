-------------------------------- MODULE MCBench -------------------------------
(* Three files of up to two units, any of them unreadable or empty, two at *)
(* a time: the semaphore fills and goroutines end in every order.          *)
EXTENDS Bench
===============================================================================
