--------------------------- MODULE CommandMailbox ---------------------------
(***************************************************************************)
(* What player_command amounts to for the player thread: a mailbox with    *)
(* room for one command.  The linked list of player.c (module              *)
(* CommandQueue) implements it: the list that starts at head never has     *)
(* more than one entry.  A command that arrives while one is pending       *)
(* replaces it, and every later one is dropped, until the player takes     *)
(* the pending command.                                                    *)
(***************************************************************************)

CONSTANTS Commands,     (* the commands the input threads queue            *)
          NoCommand     (* stands for head == NULL                         *)

VARIABLES pending,      (* the command at head, or NoCommand               *)
          replaceable   (* head == tail: the next command replaces pending *)

mailVars == <<pending, replaceable>>

TypeOK ==
  /\ pending \in Commands \cup {NoCommand}
  /\ replaceable \in BOOLEAN

Init ==
  /\ pending = NoCommand
  /\ replaceable = FALSE

Queue(c) ==
  /\ pending' = IF pending = NoCommand \/ replaceable THEN c ELSE pending
  /\ replaceable' = (pending = NoCommand)

Take ==
  /\ pending # NoCommand
  /\ pending' = NoCommand
  /\ replaceable' = FALSE

Next == Take \/ \E c \in Commands : Queue(c)

Spec == Init /\ [][Next]_mailVars

=============================================================================
