---------------------------- MODULE FixedWindows ----------------------------
(***************************************************************************)
(* What a fixed-window rate limiter promises: every key has one window,    *)
(* which is not forgotten while the process lives; a request either counts *)
(* in it or, a whole Window after its start, opens the next one.  Whether  *)
(* a request is admitted is a matter of the count it gets.                 *)
(***************************************************************************)
EXTENDS Integers

CONSTANTS Keys,       \* one per scope and client address
          Window,     \* the length of a window
          Times       \* the readings a clock can give

VARIABLE windows      \* key -> [started, count]; count 0: never opened

Unopened == [started |-> 0, count |-> 0]

Init == windows = [k \in Keys |-> Unopened]

\* The first request ever, or the first after a whole Window.
Opens(old, new) ==
    /\ new \in [started : Times, count : {1}]
    /\ old.count > 0 => new.started - old.started >= Window

CountsOneMore(old, new) ==
    old.count > 0 /\ new = [old EXCEPT !.count = @ + 1]

\* A request of a key changes the window of that key alone.
Request(k) ==
    LET old == windows[k]
        new == windows'[k]
    IN  /\ Opens(old, new) \/ CountsOneMore(old, new)
        /\ windows' = [windows EXCEPT ![k] = new]

\* A new process starts with nothing.
Reset == windows' = [k \in Keys |-> Unopened]

Next == (\E k \in Keys : Request(k)) \/ Reset

Spec == Init /\ [][Next]_windows

=============================================================================
