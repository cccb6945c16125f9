---------------------------- MODULE CommandQueue ----------------------------
(***************************************************************************)
(* The linked list of player commands, player_command in global.h.  Input  *)
(* threads append to it with player_queue_command(), the player thread     *)
(* executes and frees its entries at the top of its loop.  Both hold       *)
(* player_command.lock, so the only interleaving left is at the entries    *)
(* the player's loop has not reached yet: the loop is one action per       *)
(* entry, and the list is locked while it runs.                            *)
(***************************************************************************)
EXTENDS Integers, FiniteSets

CONSTANTS Commands,     (* the commands the input threads queue            *)
          NoCommand,
          Cells,        (* the memory malloc hands entries out of; bounds  *)
                        (* how many commands can be lost                   *)
          NULL

ASSUME CommandsAssumption == NoCommand \notin Commands
ASSUME CellsAssumption == NULL \notin Cells

VARIABLES entry,        (* the contents of the allocated cells             *)
          head, tail,
          command_size, (* player_command.size                             *)
          locked        (* the player's loop holds player_command.lock     *)

queueVars == <<entry, head, tail, command_size, locked>>

Allocated == DOMAIN entry

Entry == [command : Commands, next : Cells \cup {NULL}]

QueueTypeOK ==
  /\ Allocated \subseteq Cells
  /\ entry \in [Allocated -> Entry]
  /\ head \in Cells \cup {NULL}
  /\ tail \in Cells \cup {NULL}
  /\ command_size \in Int
  /\ locked \in BOOLEAN

QueueInit ==
  /\ entry = [c \in {} |-> NULL]
  /\ head = NULL
  /\ tail = NULL
  /\ command_size = 0
  /\ locked = FALSE

(***************************************************************************)
(* player_queue_command().  On a list that is not empty the new entry is   *)
(* linked behind tail, and then head, not tail, is moved to it if the two  *)
(* were equal.                                                             *)
(***************************************************************************)
Malloc(new, command) ==
  [e \in Allocated \cup {new} |->
     IF e = new THEN [command |-> command, next |-> NULL] ELSE entry[e]]

LinkedBehind(t, new, command) ==
  [Malloc(new, command) EXCEPT ![t].next = new]

(* Mutant: the first entry of a list is not recorded as its tail.          *)
PlayerQueueCommandForgetsTail(command) ==
  \E new \in Cells \ Allocated :
    /\ ~locked
    /\ command_size' = command_size + 1
    /\ entry' = IF head = NULL THEN Malloc(new, command)
                              ELSE LinkedBehind(tail, new, command)
    /\ head' = IF head = NULL \/ tail = head THEN new ELSE head
    /\ UNCHANGED <<tail, locked>>

(* Mutant: every command replaces the one at head.                         *)
PlayerQueueCommandAlwaysReplaces(command) ==
  \E new \in Cells \ Allocated :
    /\ ~locked
    /\ command_size' = command_size + 1
    /\ entry' = IF head = NULL THEN Malloc(new, command)
                              ELSE LinkedBehind(tail, new, command)
    /\ head' = new
    /\ tail' = IF head = NULL THEN new ELSE tail
    /\ UNCHANGED locked

PlayerQueueCommand(command) ==
  \E new \in Cells \ Allocated :
    /\ ~locked
    /\ command_size' = command_size + 1
    /\ entry' = IF head = NULL THEN Malloc(new, command)
                              ELSE LinkedBehind(tail, new, command)
    /\ head' = IF head = NULL \/ tail = head THEN new ELSE head
    /\ tail' = IF head = NULL THEN new ELSE tail
    /\ UNCHANGED locked

(***************************************************************************)
(* The player's command loop: it starts when head is not NULL and runs     *)
(* until the entry it has just freed had no successor.                     *)
(***************************************************************************)
StartCommands ==
  /\ ~locked
  /\ head # NULL
  /\ locked' = TRUE
  /\ UNCHANGED <<entry, head, tail, command_size>>

ExecuteEntry ==
  /\ locked
  /\ head # NULL
  /\ LET successor == entry[head].next IN
       /\ head' = successor
       /\ tail' = IF head = tail THEN successor ELSE tail
       /\ locked' = (successor # NULL)
  /\ entry' = [e \in Allocated \ {head} |-> entry[e]]
  /\ command_size' = command_size - 1

QueueNext == StartCommands \/ ExecuteEntry \/ \E c \in Commands : PlayerQueueCommand(c)

QueueSpec == QueueInit /\ [][QueueNext]_queueVars

-----------------------------------------------------------------------------
(* player_queue_command() writes tail->next whenever head is not NULL, and *)
(* the player's loop reads and frees the entry at head: neither pointer    *)
(* then refers to an entry that was freed, however often the list was      *)
(* emptied and refilled since tail was last set.                           *)
NoDanglingEntry == head # NULL => {head, tail} \subseteq Allocated

(* "queue a command for the player thread" (player.c, above                *)
(* player_queue_command): when the player has emptied the list, every      *)
(* command that was queued has been executed and its entry freed.          *)
NoCommandLost == head = NULL => Allocated = {}

(* The list implements the one-place mailbox that the player sees.         *)
Mailbox == INSTANCE CommandMailbox
             WITH pending <- IF head = NULL THEN NoCommand ELSE entry[head].command,
                  replaceable <- head # NULL /\ head = tail
MailboxSpec == Mailbox!Spec

=============================================================================
