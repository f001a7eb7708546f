------------------------------- MODULE GnbCells -------------------------------
(***************************************************************************)
(* The cells of the gNodeB agent as SDN-R reads them.                      *)
(*                                                                         *)
(* The agent keeps the last INITIAL_CONFIG of the controller in memory.    *)
(* Honeycomb reads the tree from the top: it asks for the ids of all DU    *)
(* functions, then for each function for its attributes and for the ids of *)
(* its cells.  The service of the cells is not told which function is      *)
(* meant.  It finds out by counting: hashMapgNBDUFunc has a flag for each  *)
(* function, and each call returns the cells of the first function whose   *)
(* flag is 0, and sets it to 1.  The flags are set to 0 by INITIAL_CONFIG. *)
(*                                                                         *)
(* The ids of functions are compared by ==.  A string of a message is the  *)
(* same object wherever it goes, and no string of another message is, so   *)
(* an object is an id and the turn of its message.  HashMap.put leaves the *)
(* key of an entry as it is.                                               *)
(*                                                                         *)
(* A message has one nearRTRIC (the code takes the first of them), its     *)
(* functions have different ids, and a cell belongs to one function.  The  *)
(* cells are left out but for their number: what a call returns is known   *)
(* by the function they belong to.                                         *)
(***************************************************************************)
EXTENDS Naturals, Sequences

CONSTANTS
    Functions,      \* ids of DU functions
    CellCount,      \* how many cells a function has
    Configs,        \* what an INITIAL_CONFIG may say: sequences of functions
    Readers,        \* the threads of Honeycomb that read
    MaxConfigs,     \* bound on the messages
    MaxWalks,       \* bound on the reads of the tree
    None

ASSUME NameAssumption == None \notin Functions
ASSUME ConfigAssumption ==
    /\ CellCount \in [Functions -> Nat]
    /\ Configs \subseteq Seq(Functions)
    /\ \A c \in Configs : \A i, j \in 1 .. Len(c) : c[i] = c[j] => i = j
ASSUME BoundsAssumption == MaxConfigs \in Nat /\ MaxWalks \in Nat

Names(list) == {list[i] : i \in 1 .. Len(list)}

VARIABLES
    config,         \* the functions of nearRTRIC in InMemoryDataTree
    turn,           \* which message they are from; 0: none has come
    puts,           \* functions whose flags the handler of the message will clear
    key,            \* hashMapgNBDUFunc: the message of an entry's key, 0: no entry
    flag,           \* and the entry's value
    pc,             \* of the readers
    walk, walkTurn, \* functions that are still to be read, and their message
    list, listTurn, \* functions the service of the cells will look at
    found,          \* the function whose cells it returns
    left,           \* how many of them are still to be added
    \* histories
    shown,          \* function -> functions whose cells were shown as its own
    complete,       \* a read of the tree has come to its end
    walks,
    mishaps

tree == <<config, turn, puts>>
entries == <<key, flag>>
position == <<walk, walkTurn, list, listTurn, found, left>>
histories == <<shown, complete, walks, mishaps>>
vars == <<tree, entries, pc, position, histories>>

\* What the service is not built for: two reads at once; a read while a message is
\* handled (only then a read can fail); a second message; one that adds a function;
\* and a function without cells.
Mishaps == {"overlap", "early", "again", "grown", "bare"}

Pc == {"idle", "next", "list", "scan", "take", "takeNull", "show"}

TypeOK ==
    /\ config \in Seq(Functions) /\ turn \in 0 .. MaxConfigs /\ puts \in Seq(Functions)
    /\ key \in [Functions -> 0 .. turn] /\ flag \in [Functions -> 0 .. 1]
    /\ pc \in [Readers -> Pc]
    /\ walk \in [Readers -> Seq(Functions)] /\ walkTurn \in [Readers -> 0 .. turn]
    /\ list \in [Readers -> Seq(Functions)] /\ listTurn \in [Readers -> 0 .. turn]
    /\ found \in [Readers -> Functions \cup {None}] /\ left \in [Readers -> Nat]
    /\ shown \in [Functions -> SUBSET Functions] /\ complete \in BOOLEAN
    /\ walks \in 0 .. MaxWalks /\ mishaps \subseteq Mishaps

Init ==
    /\ config = << >> /\ turn = 0 /\ puts = << >>
    /\ key = [f \in Functions |-> 0] /\ flag = [f \in Functions |-> 0]
    /\ pc = [r \in Readers |-> "idle"]
    /\ walk = [r \in Readers |-> << >>] /\ walkTurn = [r \in Readers |-> 0]
    /\ list = [r \in Readers |-> << >>] /\ listTurn = [r \in Readers |-> 0]
    /\ found = [r \in Readers |-> None] /\ left = [r \in Readers |-> 0]
    /\ shown = [f \in Functions |-> {}] /\ complete = FALSE
    /\ walks = 0 /\ mishaps = {}

Go(r, label) == pc' = [pc EXCEPT ![r] = label]

\* A null in what a service returns, or null itself, is a NullPointerException in
\* the reader that called it, and the read of the tree fails.
Fail(r) == Go(r, "idle")

-----------------------------------------------------------------------------
(* handleInitialConfig, on the thread of the web socket. *)

SetNearRTRIC(c) ==
    /\ puts = << >> /\ turn < MaxConfigs
    /\ config' = c /\ turn' = turn + 1 /\ puts' = c
    /\ mishaps' = mishaps
         \cup (IF turn > 0 THEN {"again"} ELSE {})
         \cup (IF turn > 0 /\ \E f \in Names(c) : key[f] = 0 THEN {"grown"} ELSE {})
         \cup (IF \E f \in Names(c) : CellCount[f] = 0 THEN {"bare"} ELSE {})
         \cup (IF \E r \in Readers : pc[r] # "idle" THEN {"early"} ELSE {})
    /\ UNCHANGED <<entries, pc, position, shown, complete, walks>>

\* Mutant: an entry is made with the flag set.
PutFlag_Set ==
    /\ puts # << >>
    /\ puts' = Tail(puts)
    /\ key' = [key EXCEPT ![Head(puts)] = IF @ = 0 THEN turn ELSE @]
    /\ flag' = [flag EXCEPT ![Head(puts)] = IF key[Head(puts)] = 0 THEN 1 ELSE 0]
    /\ UNCHANGED <<config, turn, pc, position, histories>>

PutFlag ==
    /\ puts # << >>
    /\ puts' = Tail(puts)
    /\ key' = [key EXCEPT ![Head(puts)] = IF @ = 0 THEN turn ELSE @]
    /\ flag' = [flag EXCEPT ![Head(puts)] = 0]
    /\ UNCHANGED <<config, turn, pc, position, histories>>

-----------------------------------------------------------------------------
(* A read of the tree. *)

\* The ids of the functions.  A message that comes while they are collected makes
\* the read fail before it has changed anything.
BeginWalk(r) ==
    /\ pc[r] = "idle" /\ turn > 0 /\ walks < MaxWalks
    /\ walk' = [walk EXCEPT ![r] = config] /\ walkTurn' = [walkTurn EXCEPT ![r] = turn]
    /\ Go(r, "next")
    /\ walks' = walks + 1
    /\ mishaps' = mishaps
         \cup (IF \E q \in Readers \ {r} : pc[q] # "idle" THEN {"overlap"} ELSE {})
         \cup (IF puts # << >> THEN {"early"} ELSE {})
    /\ UNCHANGED <<tree, entries, list, listTurn, found, left, shown, complete>>

\* readSpecific of the function compares its id by ==.
ReadFunction(r) ==
    /\ pc[r] = "next" /\ walk[r] # << >>
    /\ \/ walkTurn[r] = turn /\ Go(r, "list")
       \/ walkTurn[r] # turn /\ Fail(r)
    /\ UNCHANGED <<tree, entries, position, histories>>

EndWalk(r) ==
    /\ pc[r] = "next" /\ walk[r] = << >>
    /\ Go(r, "idle")
    /\ complete' = TRUE
    /\ UNCHANGED <<tree, entries, position, shown, walks, mishaps>>

-----------------------------------------------------------------------------
(* readAll of the cells. *)

GetNearRTRIC(r) ==
    /\ pc[r] = "list"
    /\ list' = [list EXCEPT ![r] = config] /\ listTurn' = [listTurn EXCEPT ![r] = turn]
    /\ Go(r, "scan")
    /\ UNCHANGED <<tree, entries, walk, walkTurn, found, left, histories>>

\* The key of the entry is the id, the flag is 0, and there is a cell to return.
Unread(f, t) == key[f] = t /\ flag[f] = 0 /\ CellCount[f] > 0

SkipFunction(r) ==
    /\ pc[r] = "scan" /\ list[r] # << >> /\ ~Unread(Head(list[r]), listTurn[r])
    /\ list' = [list EXCEPT ![r] = Tail(@)]
    /\ UNCHANGED <<tree, entries, pc, walk, walkTurn, listTurn, found, left, histories>>

FindFunction(r) ==
    /\ pc[r] = "scan" /\ list[r] # << >> /\ Unread(Head(list[r]), listTurn[r])
    /\ found' = [found EXCEPT ![r] = Head(list[r])]
    /\ left' = [left EXCEPT ![r] = CellCount[Head(list[r])]]
    /\ Go(r, "take")
    /\ UNCHANGED <<tree, entries, walk, walkTurn, list, listTurn, histories>>

\* No function is left: an empty list.
ReturnNothing(r) ==
    /\ pc[r] = "scan" /\ list[r] = << >>
    /\ walk' = [walk EXCEPT ![r] = Tail(@)]
    /\ Go(r, "next")
    /\ UNCHANGED <<tree, entries, walkTurn, list, listTurn, found, left, histories>>

\* An entry is added to the map while it is iterated over.
ModifiedConcurrently(r) ==
    /\ pc[r] = "scan" /\ puts # << >> /\ key[Head(puts)] = 0
    /\ Fail(r)
    /\ UNCHANGED <<tree, entries, position, histories>>

\* Mutant: the flag stays 0.
TakeCell_KeepsFlag(r) ==
    /\ pc[r] \in {"take", "takeNull"} /\ left[r] > 0
    /\ left' = [left EXCEPT ![r] = @ - 1]
    /\ Go(r, IF found[r] \in Names(config) THEN pc[r] ELSE "takeNull")
    /\ UNCHANGED <<tree, entries, walk, walkTurn, list, listTurn, found, histories>>

\* readSpecific looks the cell up in what the tree has now, and returns null if it
\* is not there; the flag is set for each cell.
TakeCell(r) ==
    /\ pc[r] \in {"take", "takeNull"} /\ left[r] > 0
    /\ left' = [left EXCEPT ![r] = @ - 1]
    /\ flag' = [flag EXCEPT ![found[r]] = 1]
    /\ Go(r, IF found[r] \in Names(config) THEN pc[r] ELSE "takeNull")
    /\ UNCHANGED <<tree, key, walk, walkTurn, list, listTurn, found, histories>>

ReturnCells(r) ==
    /\ left[r] = 0
    /\ \/ pc[r] = "take" /\ Go(r, "show")
       \/ pc[r] = "takeNull" /\ Fail(r)
    /\ UNCHANGED <<tree, entries, position, histories>>

\* The cells that are returned are read once more and become those of the function
\* the reader is at.
ShowCells(r) ==
    /\ pc[r] = "show"
    /\ \/ /\ found[r] \in Names(config)
          /\ shown' = [shown EXCEPT ![Head(walk[r])] = @ \cup {found[r]}]
          /\ walk' = [walk EXCEPT ![r] = Tail(@)]
          /\ Go(r, "next")
       \/ found[r] \notin Names(config) /\ Fail(r) /\ UNCHANGED <<shown, walk>>
    /\ UNCHANGED <<tree, entries, walkTurn, list, listTurn, found, left, complete,
                   walks, mishaps>>

-----------------------------------------------------------------------------

Next ==
    \/ \E c \in Configs : SetNearRTRIC(c)
    \/ PutFlag
    \/ \E r \in Readers :
         \/ BeginWalk(r) \/ ReadFunction(r) \/ EndWalk(r)
         \/ GetNearRTRIC(r) \/ SkipFunction(r) \/ FindFunction(r) \/ ReturnNothing(r)
         \/ ModifiedConcurrently(r) \/ TakeCell(r) \/ ReturnCells(r) \/ ShowCells(r)

Spec == Init /\ [][Next]_vars

-----------------------------------------------------------------------------
(* Properties. *)

\* No function is shown with the cells of another, as long as the reads come one by
\* one, no message is handled meanwhile, none adds a function, and all have cells.
\* It may be shown with none: each further read returns nothing, and so does each
\* read after a second message, whose ids are not the keys of the map.
OwnCells ==
    mishaps \subseteq {"again"} =>
        \A f \in Functions : shown[f] \subseteq {f}

\* After the first message, the first read of the tree shows every function with
\* its cells.
FirstReadIsComplete ==
    complete /\ mishaps = {} => \A f \in Names(config) : shown[f] = {f}
=============================================================================
