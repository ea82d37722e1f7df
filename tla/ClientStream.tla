---------------------------- MODULE ClientStream ----------------------------
(***************************************************************************)
(* What a client of the engine is promised about its completion stream:    *)
(* text arrives while the stream is open, one terminal delta closes it,    *)
(* and nothing follows the terminal delta.  The promise is void once the   *)
(* client has hung up or was told that inference failed.                   *)
(***************************************************************************)
EXTENDS Naturals

CONSTANT Clients

VARIABLES status,   \* "open", "ended" or "gone"
          text      \* characters delivered so far

Init == /\ status = [c \in Clients |-> "open"]
        /\ text = [c \in Clients |-> 0]

Idle(c) == status'[c] = status[c] /\ text'[c] = text[c]

Deliver(c) == status[c] = "open" /\ status'[c] = "open" /\ text'[c] > text[c]

End(c) == status[c] = "open" /\ status'[c] = "ended" /\ text'[c] >= text[c]

Abandon(c) == status'[c] = "gone" /\ text'[c] = 0

(* One step of the engine may touch several clients, each of them legally. *)
Next == /\ status' \in [Clients -> {"open", "ended", "gone"}]
        /\ \A c \in Clients : Idle(c) \/ Deliver(c) \/ End(c) \/ Abandon(c)

Spec == Init /\ [][Next]_<<status, text>>
=============================================================================
