-------------------------------- MODULE Config --------------------------------
(***************************************************************************)
(* The flash sector of config.c: the parameters as records at its start,   *)
(* the tokens (the binding of the radio) growing down from its end.        *)
(*                                                                         *)
(* Three tasks write it: radio stores the token of a new binding, the      *)
(* supervisor saves on a stick command, comm saves on a command of the     *)
(* ground.  Nothing excludes one from another: the tasks have fixed        *)
(* priorities, and the more urgent one runs through whatever point the     *)
(* other has come to.  FLASH_Unlock() and FLASH_Lock() do not nest.  The   *)
(* power may fail between any two words.                                   *)
(*                                                                         *)
(* A record is two writes here, its name and its value; a name of which    *)
(* only some words were written is no parameter's, like one not written.   *)
(* A token is two writes, its key and its data; there is one key, "CYRF",  *)
(* and configFlashWrite() keeps the newest token of it.  A save that       *)
(* cannot allocate its buffer does nothing.  Left out: the parameters file *)
(* (Filer), a change of the firmware's version, a power failure in the     *)
(* middle of the erase or of one word.                                     *)
(***************************************************************************)
EXTENDS Naturals, FiniteSets

CONSTANTS
  NumParams,    \* CONFIG_NUM_PARAMS
  NumSlots,     \* the room for tokens
  Values,       \* the values in the range of a parameter
  Default,      \* defaultVal
  Odd,          \* an accepted value that nobody has set
  Binds,        \* the transmitters a token may name
  None,         \* no value, no token
  \* bounds of the model
  MaxChanges,   \* of parameters, by the ground or by a calibration
  MaxSaves, MaxStores, MaxFaults, MaxBoots

Erased == "erased"    \* all bits set: no record, no token
NaN    == "nan"       \* named, the value still all bits set
Torn   == "torn"      \* a key without its data
Mixed  == "mixed"     \* the bits that two writes left

ASSUME ConfigAssumption ==
  /\ NumParams \in Nat \ {0}
  /\ {MaxChanges, MaxSaves, MaxStores, MaxFaults, MaxBoots} \subseteq Nat
  /\ NumSlots \in Nat /\ NumSlots > MaxStores + MaxSaves
  /\ Default \in Values
  /\ Odd \notin Values
  /\ {Erased, NaN, Torn, Mixed, None} \cap (Values \cup {Odd} \cup Binds) = {}
  /\ None \notin {Erased, NaN, Torn, Mixed} \cup [1 .. NumParams -> Values \cup {Odd}]

Params   == 1 .. NumParams
Slots    == 1 .. NumSlots
Accepted == Values \cup {Odd}
Words    == Accepted \cup {Erased, NaN, Mixed}

Savers == {"supervisor", "comm"}
Tasks  == Savers \cup {"radio"}

\* The tasks of a higher priority: radio 25, run 30, supervisor 34, comm 40.
Urgent == [t \in Tasks |-> CASE t = "radio"      -> {}
                             [] t = "supervisor" -> {"radio"}
                             [] t = "comm"       -> {"radio", "supervisor"}]

VARIABLES
  p,            \* the parameters in use
  rec,          \* the records in flash, from its start
  tokens,       \* the tokens in flash, from its end
  unlocked,     \* FLASH_CR_LOCK is not set
  pc,
  at,           \* the record or the slot a task has come to
  copy,         \* the token a saver or the radio holds in RAM
  list,         \* the values a saver has put in its list
  \* history
  intended,     \* the values of the save the flash was erased for
  saved,        \* those of a save that returned 1, until the next erase
  bound,        \* the last binding stored with no clash since the last erase
  clash,        \* a task wrote the flash in the middle of a save of another
  count         \* of changes, saves, stores, faults and boots

flash   == <<rec, tokens, unlocked>>
locals  == <<pc, at, copy, list>>
history == <<intended, saved, bound, clash>>
vars    == <<p, flash, locals, history, count>>

TokenPoints == {"token", "tokenUnlock", "key", "data"}
SavePoints  == TokenPoints \cup {"eraseUnlock", "erase", "list", "unlock", "name", "value"}

Lists == [Params -> Accepted]

TypeOK ==
  /\ p \in Lists
  /\ rec \in [Params -> Words]
  /\ tokens \in [Slots -> Binds \cup {Erased, Torn, Mixed}]
  /\ unlocked \in BOOLEAN
  /\ pc \in [Tasks -> SavePoints \cup {"idle", "load"}]
  /\ at \in [Tasks -> 1 .. NumParams + NumSlots]
  /\ copy \in [Tasks -> Binds \cup {Torn, Mixed, None}]
  /\ list \in [Savers -> Lists \cup {None}]
  /\ intended \in Lists \cup {None}
  /\ saved \in Lists \cup {None}
  /\ bound \in Binds \cup {None}
  /\ clash \in BOOLEAN
  /\ count \in [changes : 0 .. MaxChanges, saves : 0 .. MaxSaves, stores : 0 .. MaxStores,
                faults : 0 .. MaxFaults, boots : 0 .. MaxBoots]

Blank  == [i \in Params |-> Erased]
Unused == [s \in Slots |-> Erased]
Defaults == [i \in Params |-> Default]

Init ==
  /\ p = Defaults
  /\ rec = Blank
  /\ tokens = Unused
  /\ unlocked = FALSE
  /\ pc = [t \in Tasks |-> "idle"]
  /\ at = [t \in Tasks |-> 1]
  /\ copy = [t \in Tasks |-> None]
  /\ list = [t \in Savers |-> None]
  /\ intended = None
  /\ saved = None
  /\ bound = None
  /\ clash = FALSE
  /\ count = [changes |-> 0, saves |-> 0, stores |-> 0, faults |-> 0, boots |-> 0]

CanRun(t) == \A u \in Urgent[t] : pc[u] = "idle"

Saving(t) == t \in Savers /\ pc[t] \in SavePoints

Goto(t, point) == pc' = [pc EXCEPT ![t] = point]

-----------------------------------------------------------------------------
(***************************************************************************)
(* The parameters.                                                         *)
(***************************************************************************)

AcceptAny(old, v) == {v}

\* configSetParamByID(): what a parameter that was old may be afterwards.  A value
\* of mixed bits may be in the range or not.
Accept(old, v) ==
  CASE v \in Accepted -> {v}
    [] v = Mixed      -> {old, Odd}
    [] OTHER          -> {old}

SetByID(i, v) == {[p EXCEPT ![i] = w] : w \in Accept(p[i], v)}

\* PARAM_SET in comm
SetParam(i, v) ==
  /\ CanRun("comm") /\ pc["comm"] = "idle"
  /\ count.changes < MaxChanges
  /\ p' \in SetByID(i, v)
  /\ count' = [count EXCEPT !.changes = @ + 1]
  /\ UNCHANGED <<flash, locals, history>>

\* PREFLIGHT_STORAGE 4 in comm
LoadDefault ==
  /\ CanRun("comm") /\ pc["comm"] = "idle"
  /\ p' = Defaults
  /\ UNCHANGED <<flash, locals, history, count>>

\* The end of a calibration in run, which preempts all but radio.
Calibrate(i, v) ==
  /\ pc["radio"] = "idle"
  /\ count.changes < MaxChanges
  /\ p' = [p EXCEPT ![i] = v]
  /\ count' = [count EXCEPT !.changes = @ + 1]
  /\ UNCHANGED <<flash, locals, history>>

\* configFlashRead() in comm, one record at a time.
Load ==
  /\ CanRun("comm")
  /\ \/ /\ pc["comm"] = "idle"
        /\ rec[1] \notin {Erased, NaN}    \* the version
        /\ Goto("comm", "load")
        /\ at' = [at EXCEPT !["comm"] = 1]
        /\ UNCHANGED p
     \/ /\ pc["comm"] = "load"
        /\ LET i    == at["comm"]
               last == i = NumParams \/ rec[i] = Erased
           IN  /\ p' \in SetByID(i, rec[i])
               /\ Goto("comm", IF last THEN "idle" ELSE "load")
               /\ at' = [at EXCEPT !["comm"] = IF last THEN 1 ELSE i + 1]
  /\ UNCHANGED <<flash, copy, list, history, count>>

-----------------------------------------------------------------------------
(***************************************************************************)
(* flash.c: a word is programmed or an error ends the operation, whatever  *)
(* the word holds then.  Bits can only be cleared, so a word that is       *)
(* written twice has the bits of both.  When a more urgent task has locked *)
(* the flash, a word is not programmed and is an error; an erase does not  *)
(* start, reported or not.                                                 *)
(***************************************************************************)

Over(old, new) == IF old \in {Erased, NaN, Torn, new} THEN new ELSE Mixed

Fault ==
  /\ count.faults < MaxFaults
  /\ count' = [count EXCEPT !.faults = @ + 1]

Unlock(t, from, to) ==
  /\ CanRun(t) /\ pc[t] = from
  /\ unlocked' = TRUE
  /\ Goto(t, to)
  /\ UNCHANGED <<p, rec, tokens, at, copy, list, history, count>>

\* The end of a store or of a save; a save frees its list.
Leave(t) ==
  /\ Goto(t, "idle")
  /\ at' = [at EXCEPT ![t] = 1]
  /\ copy' = [copy EXCEPT ![t] = None]
  /\ list' = IF t \in Savers THEN [list EXCEPT ![t] = None] ELSE list

-----------------------------------------------------------------------------
(***************************************************************************)
(* The tokens.                                                             *)
(***************************************************************************)

\* configTokenFindEmpty()
FirstEmpty(tok) == CHOOSE s \in Slots : tok[s] = Erased /\ \A r \in 1 .. s - 1 : tok[r] # Erased

\* configTokenGet(): the last one before the first empty slot.
TokenGet(tok) ==
  LET end == FirstEmpty(tok) IN IF end = 1 THEN None ELSE tok[end - 1]

\* newBind in dsmReceive(): the address is found before the flash is unlocked.
StoreBind(b) ==
  /\ pc["radio"] = "idle"
  /\ count.stores < MaxStores
  /\ count' = [count EXCEPT !.stores = @ + 1]
  /\ Goto("radio", "token")
  /\ copy' = [copy EXCEPT !["radio"] = b]
  /\ bound' = None
  /\ clash' = (clash \/ \E t \in Savers : Saving(t))
  /\ UNCHANGED <<p, flash, at, list, intended, saved>>

FindEmpty(t) ==
  /\ CanRun(t) /\ pc[t] = "token"
  /\ IF copy[t] = None
     THEN Goto(t, "list") /\ UNCHANGED at
     ELSE Goto(t, "tokenUnlock") /\ at' = [at EXCEPT ![t] = FirstEmpty(tokens)]
  /\ UNCHANGED <<p, flash, copy, list, history, count>>

\* configTokenStore() returns nothing: the save goes on after an error.
EndToken(t) ==
  /\ unlocked' = FALSE
  /\ IF t = "radio" THEN Leave(t)
                    ELSE Goto(t, "list") /\ at' = [at EXCEPT ![t] = 1] /\ UNCHANGED <<copy, list>>

Key(t) ==
  /\ CanRun(t) /\ pc[t] = "key"
  /\ \/ /\ unlocked
        /\ tokens' = [tokens EXCEPT ![at[t]] = IF @ = Erased THEN Torn ELSE @]
        /\ Goto(t, "data")
        /\ UNCHANGED <<unlocked, at, copy, list, bound, count>>
     \/ /\ \/ ~unlocked /\ UNCHANGED <<tokens, count>>
           \/ /\ Fault
              /\ tokens' \in {tokens, [tokens EXCEPT ![at[t]] = IF @ = Erased THEN Torn ELSE @]}
        /\ EndToken(t)
        /\ bound' = None
  /\ UNCHANGED <<p, rec, intended, saved, clash>>

Data(t) ==
  /\ CanRun(t) /\ pc[t] = "data"
  /\ LET written == [tokens EXCEPT ![at[t]] = Over(@, copy[t])]
     IN  \/ /\ unlocked
            /\ tokens' = written
            /\ bound' = IF t = "radio" /\ ~clash THEN copy[t] ELSE bound
            /\ UNCHANGED count
         \/ /\ \/ ~unlocked /\ UNCHANGED <<tokens, count>>
               \/ Fault /\ tokens' \in {tokens, written}
            /\ bound' = None
  /\ EndToken(t)
  /\ UNCHANGED <<p, rec, intended, saved, clash>>

-----------------------------------------------------------------------------
(***************************************************************************)
(* configFlashWrite()                                                      *)
(***************************************************************************)

OldestToken(tok) == IF FirstEmpty(tok) = 1 THEN None ELSE tok[1]

\* "only one instance per key": a later token overwrites an earlier one.
OneInstance(tok) == TokenGet(tok)

\* The tokens are copied to RAM.  Another save under way may have erased them.
StartSave(t) ==
  /\ CanRun(t) /\ pc[t] = "idle"
  /\ count.saves < MaxSaves
  /\ count' = [count EXCEPT !.saves = @ + 1]
  /\ copy' = [copy EXCEPT ![t] = OneInstance(tokens)]
  /\ Goto(t, "eraseUnlock")
  /\ LET other == \E u \in Savers \ {t} : Saving(u)
     IN  /\ clash' = (clash \/ other)
         /\ bound' = IF other THEN None ELSE bound
  /\ UNCHANGED <<p, flash, at, list, intended, saved>>

EraseSector ==
  /\ rec' = Blank
  /\ tokens' = Unused
  /\ intended' = None
  /\ saved' = None

Erase(t) ==
  /\ CanRun(t) /\ pc[t] = "erase"
  /\ unlocked' = FALSE
  /\ \/ /\ unlocked
        /\ EraseSector
        /\ clash' = \E u \in Savers \ {t} : Saving(u)
        /\ Goto(t, "token")
        /\ UNCHANGED <<at, copy, list, bound, count>>
     \/ /\ ~unlocked
        /\ \/ Goto(t, "token") /\ UNCHANGED <<at, copy, list>>
           \/ Leave(t)
        /\ UNCHANGED <<rec, tokens, history, count>>
     \/ /\ Fault
        /\ \/ EraseSector /\ bound' = None
           \/ UNCHANGED <<rec, tokens, intended, saved, bound>>
        /\ Leave(t)
        /\ UNCHANGED clash
  /\ UNCHANGED p

\* The list is made in the RAM that held the tokens.
MakeList(t) ==
  /\ CanRun(t) /\ pc[t] = "list"
  /\ list' = [list EXCEPT ![t] = p]
  /\ copy' = [copy EXCEPT ![t] = None]
  /\ intended' = p
  /\ Goto(t, "unlock")
  /\ UNCHANGED <<p, flash, at, saved, bound, clash, count>>

FailUnseen(t) ==
  /\ unlocked' = FALSE
  /\ Leave(t)
  /\ saved' = list[t]

\* A word that fails ends the save, which then returns 0.
Fail(t) ==
  /\ unlocked' = FALSE
  /\ Leave(t)
  /\ UNCHANGED saved

Name(t) ==
  /\ CanRun(t) /\ pc[t] = "name"
  /\ LET named == [rec EXCEPT ![at[t]] = IF @ = Erased THEN NaN ELSE @]
     IN  \/ /\ unlocked
            /\ rec' = named
            /\ Goto(t, "value")
            /\ UNCHANGED <<unlocked, at, copy, list, saved, count>>
         \/ /\ \/ ~unlocked /\ UNCHANGED <<rec, count>>
               \/ Fault /\ rec' \in {rec, named}
            /\ Fail(t)
  /\ UNCHANGED <<p, tokens, intended, bound, clash>>

Value(t) ==
  /\ CanRun(t) /\ pc[t] = "value"
  /\ LET i       == at[t]
         written == [rec EXCEPT ![i] = Over(@, list[t][i])]
     IN  \/ /\ unlocked
            /\ rec' = written
            /\ IF i < NumParams
               THEN /\ Goto(t, "name")
                    /\ at' = [at EXCEPT ![t] = i + 1]
                    /\ UNCHANGED <<unlocked, copy, list, saved>>
               ELSE unlocked' = FALSE /\ Leave(t) /\ saved' = list[t]
            /\ UNCHANGED count
         \/ /\ \/ ~unlocked /\ UNCHANGED <<rec, count>>
               \/ Fault /\ rec' \in {rec, written}
            /\ Fail(t)
  /\ UNCHANGED <<p, tokens, intended, bound, clash>>

-----------------------------------------------------------------------------

\* The power fails at any point; configInit() follows, with no file to read.
\* A token in the RAM of a save is gone.
Reboot ==
  /\ count.boots < MaxBoots
  /\ count' = [count EXCEPT !.boots = @ + 1]
  /\ p' \in {q \in [Params -> Words] :
               \A i \in Params :
                 q[i] \in IF \E j \in 1 .. i : rec[j] = Erased
                         THEN {Default}
                         ELSE Accept(Default, rec[i])}
  /\ unlocked' = FALSE
  /\ pc' = [t \in Tasks |-> "idle"]
  /\ at' = [t \in Tasks |-> 1]
  /\ copy' = [t \in Tasks |-> None]
  /\ list' = [t \in Savers |-> None]
  /\ bound' = IF bound = TokenGet(tokens) THEN bound ELSE None
  /\ UNCHANGED <<rec, tokens, intended, saved, clash>>

SaverStep(t) ==
  \/ StartSave(t)
  \/ Unlock(t, "eraseUnlock", "erase")
  \/ Erase(t)
  \/ MakeList(t)
  \/ Unlock(t, "unlock", "name")
  \/ Name(t)
  \/ Value(t)

TokenStep(t) ==
  \/ FindEmpty(t)
  \/ Unlock(t, "tokenUnlock", "key")
  \/ Key(t)
  \/ Data(t)

Next ==
  \/ \E i \in Params, v \in Values \cup {NaN} : SetParam(i, v)
  \/ \E i \in Params, v \in Values : Calibrate(i, v)
  \/ LoadDefault
  \/ Load
  \/ \E b \in Binds : StoreBind(b)
  \/ \E t \in Tasks : TokenStep(t)
  \/ \E t \in Savers : SaverStep(t)
  \/ Reboot

Spec == Init /\ [][Next]_vars

-----------------------------------------------------------------------------

\* When configFlashWrite() has returned 1 the flash holds every value of its
\* list, until somebody erases it: whatever preempts the save, no torn or mixed
\* record passes for a success.
SaveDurable == saved # None /\ ~clash => rec = saved

\* Whenever the power fails, configFlashRead() brings back the first parameters of
\* one save and leaves the others at their defaults: never a value that was
\* half written, never some values of one save and some of another.
BootsOneSave ==
  [][count'.boots # count.boots /\ ~clash
       => \E k \in 0 .. NumParams :
            /\ k > 0 => intended # None
            /\ \A i \in Params : p'[i] = IF i <= k THEN intended[i] ELSE Default]_vars

\* A binding stored while nobody saves is not lost by later saves: the flash
\* answers with it, or the save that erased it still has it to write back.  It may
\* be lost in a sector that two saves have written at once: they leave an empty
\* slot between two tokens, where the new one is stored, behind an older one.
BindingKept ==
  bound # None =>
    \/ TokenGet(tokens) = bound
    \/ \E t \in Savers : copy[t] = bound /\ pc[t] \in TokenPoints

===============================================================================
