---------------------------- MODULE OptionStore ----------------------------
(***************************************************************************)
(* What the driver of a register device promises its caller: a store of    *)
(* independent options.  A call that sets an option touches no other one;  *)
(* if it succeeds, the option holds the value when it returns; if it       *)
(* fails, only that option is in doubt.  Volatile options are those the    *)
(* chip changes itself (its reset bits): about them nothing is promised.   *)
(***************************************************************************)
CONSTANTS
  Volatile,  \* the options the chip clears by itself
  Value,     \* the values of all options
  None       \* no call

VARIABLES
  store,     \* for each option in use, what reading it back would give
  pending,   \* the call that is running, [opt, val], or None
  result     \* what the last call returned: 0 for success, 1 for an error

Init ==
  /\ \A o \in DOMAIN store : store[o] \in Value
  /\ pending = None
  /\ result = 0

InDoubt == IF pending = None THEN {} ELSE {pending.opt}

(* Only the option that is being set, and the chip's own, may change. *)
Change ==
  /\ DOMAIN store' = DOMAIN store
  /\ \A o \in DOMAIN store :
       /\ store'[o] \in Value
       /\ o \in InDoubt \union Volatile \/ store'[o] = store[o]

Call ==
  /\ pending = None
  /\ pending' \in [opt : DOMAIN store, val : Value]
  /\ UNCHANGED <<store, result>>

(* The call, or the chip, is at work. *)
Work == Change /\ UNCHANGED <<pending, result>>

Succeed ==
  /\ pending # None
  /\ pending.opt \in Volatile \/ store[pending.opt] = pending.val
  /\ pending' = None
  /\ result' = 0
  /\ UNCHANGED store

Fail ==
  /\ pending # None
  /\ Change
  /\ pending' = None
  /\ result' = 1

Next == Call \/ Work \/ Succeed \/ Fail

Spec == Init /\ [][Next]_<<store, pending, result>>
=============================================================================
