----------------------------- MODULE ConfigProofs -----------------------------
(***************************************************************************)
(* Theorems about Config, for every value of its constants.                *)
(***************************************************************************)
EXTENDS Config, TLAPS, WellFoundedInduction

-------------------------------------------------------------------------------
(* The inductive invariant *)

SlotPoints == {"tokenUnlock", "key", "data"}
CopyPoints == TokenPoints \cup {"eraseUnlock", "erase"}
ListPoints == {"unlock", "name", "value"}

\* What a task has come to and what it holds.
Places ==
  /\ \A t \in Tasks :
       /\ pc[t] \in SlotPoints => at[t] \in Slots /\ copy[t] # None
       /\ pc[t] \in {"name", "value", "load"} => at[t] \in Params
       /\ pc[t] \in {"idle", "token", "eraseUnlock", "erase", "list", "unlock"} => at[t] = 1
       /\ pc[t] = "load" => t = "comm"
  /\ \A t \in Savers : pc[t] \in ListPoints => list[t] \in Lists
  /\ pc["radio"] \in TokenPoints \cup {"idle"}
  /\ pc["radio"] \in TokenPoints => copy["radio"] \in Binds

\* The stores and saves that may still take a slot, and those that have theirs.
Owed(t) == IF pc[t] \in {"eraseUnlock", "erase", "token"} THEN 1 ELSE 0
Taken   == count.stores + count.saves - (Owed("radio") + Owed("supervisor") + Owed("comm"))

\* There is always an empty slot, and one after the slot a task has chosen.
Room ==
  /\ Taken \in Nat
  /\ \A s \in Slots : s > Taken => tokens[s] = Erased
  /\ \A t \in Tasks : pc[t] \in SlotPoints => at[t] <= Taken

\* With no clash one task at a time is at work, and nobody locks the flash under it.
Alone ==
  ~clash =>
    /\ \A t, u \in Tasks : pc[t] \in SavePoints /\ pc[u] \in SavePoints => t = u
    /\ \A t \in Tasks : pc[t] \in {"erase", "key", "data", "name", "value"} => unlocked

\* The records are the first values of one save, the next one perhaps unfinished.
Prefix(k) ==
  /\ k > 0 => intended # None
  /\ \A i \in Params : /\ i <= k => rec[i] = intended[i]
                       /\ i = k + 1 => rec[i] \in {Erased, NaN}
                       /\ i > k + 1 => rec[i] = Erased

\* A save alone writes its list record after record in an erased sector.
Progress(t) ==
  /\ pc[t] \in TokenPoints \cup {"list", "unlock"} => rec = Blank
  /\ pc[t] \in TokenPoints \cup {"list"} \cup ListPoints => saved = None
  /\ pc[t] \in ListPoints => intended = list[t]
  /\ pc[t] = "name" => /\ Prefix(at[t] - 1)
                       /\ rec[at[t]] = Erased
  /\ pc[t] = "value" => /\ Prefix(at[t] - 1)
                        /\ rec[at[t]] = NaN

Records ==
  ~clash => /\ \E k \in 0 .. NumParams : Prefix(k)
            /\ \A t \in Savers : Progress(t)

\* With no clash the tokens have no gap, but where a task writes one.
Dense ==
  ~clash =>
    /\ \A r, s \in Slots : r < s /\ tokens[r] = Erased => tokens[s] = Erased
    /\ \A t \in Tasks :
         /\ pc[t] \in {"tokenUnlock", "key"} => tokens[at[t]] = Erased
         /\ pc[t] = "data" => tokens[at[t]] = Torn
         /\ pc[t] \in SlotPoints =>
              \A s \in Slots : /\ s < at[t] => tokens[s] # Erased
                               /\ s > at[t] => tokens[s] = Erased

\* A save under way has copied the binding.
Binding ==
  bound # None =>
    /\ ~clash
    /\ pc["radio"] = "idle"
    /\ \A t \in Savers : pc[t] \in CopyPoints => copy[t] = bound


Layout    == TypeOK /\ Places /\ Room
Work      == Alone /\ Records /\ SaveDurable
Bindings  == Dense /\ Binding /\ BindingKept
ConfigInv == Layout /\ Work /\ Bindings

-------------------------------------------------------------------------------
(* The constants and the operators *)

LEMMA Constants ==
  /\ NumParams \in Nat \ {0} /\ NumSlots \in Nat /\ NumSlots > MaxStores + MaxSaves
  /\ MaxChanges \in Nat /\ MaxSaves \in Nat /\ MaxStores \in Nat
  /\ MaxFaults \in Nat /\ MaxBoots \in Nat
  /\ Default \in Accepted /\ Odd \in Accepted /\ Values \subseteq Accepted
  /\ Erased \notin Accepted /\ NaN \notin Accepted /\ Mixed \notin Accepted
  /\ Torn # Erased /\ Mixed # Erased /\ NaN # Mixed
  /\ Erased \notin Binds /\ None \notin Binds \cup {Erased, NaN, Torn, Mixed}
  /\ None \notin Lists
  BY ConfigAssumption DEF Accepted, Lists, Params, Erased, NaN, Torn, Mixed

\* A token area with an empty slot has a first one.
LEMMA FirstEmptyExists ==
  ASSUME NEW tok, NEW s \in Slots, tok[s] = Erased
  PROVE  /\ FirstEmpty(tok) \in Slots
         /\ tok[FirstEmpty(tok)] = Erased
         /\ \A r \in 1 .. FirstEmpty(tok) - 1 : tok[r] # Erased
         /\ FirstEmpty(tok) <= s
  <1> DEFINE Empty == {r \in Slots : tok[r] = Erased}
  <1>1. Empty \subseteq Nat /\ Empty # {}
    BY DEF Slots
  <1>2. PICK least \in Empty : \A r \in Empty : ~ (<<r, least>> \in OpToRel(<, Nat))
    <2> HIDE DEF Empty
    <2> QED
      BY <1>1, NatLessThanWellFounded, WFMin
  <1>3. \A r \in Empty : ~ (r < least)
    BY <1>1, <1>2 DEF OpToRel
  <1>4. /\ least \in Slots /\ tok[least] = Erased
        /\ \A r \in 1 .. least - 1 : tok[r] # Erased
    BY <1>3, Constants DEF Slots
  <1>5. /\ FirstEmpty(tok) \in Slots /\ tok[FirstEmpty(tok)] = Erased
        /\ \A r \in 1 .. FirstEmpty(tok) - 1 : tok[r] # Erased
    BY <1>4 DEF FirstEmpty
  <1>6. FirstEmpty(tok) <= s
    BY <1>5, Constants DEF Slots
  <1> QED
    BY <1>5, <1>6

\* It is the one that has none before it.
LEMMA FirstEmptyIs ==
  ASSUME NEW tok, NEW s \in Slots, tok[s] = Erased, \A r \in 1 .. s - 1 : tok[r] # Erased
  PROVE  FirstEmpty(tok) = s
  <1>1. /\ FirstEmpty(tok) \in Slots /\ tok[FirstEmpty(tok)] = Erased
        /\ \A r \in 1 .. FirstEmpty(tok) - 1 : tok[r] # Erased
        /\ FirstEmpty(tok) <= s
    BY FirstEmptyExists
  <1> QED
    BY <1>1, Constants DEF Slots

\* configTokenGet() finds a token, or none.
LEMMA TokenGetType ==
  ASSUME NEW tok \in [Slots -> Binds \cup {Erased, Torn, Mixed}], NEW s \in Slots, tok[s] = Erased
  PROVE  TokenGet(tok) \in Binds \cup {Torn, Mixed, None}
  <1>1. /\ FirstEmpty(tok) \in Slots
        /\ \A r \in 1 .. FirstEmpty(tok) - 1 : tok[r] # Erased
    BY FirstEmptyExists
  <1>2. CASE FirstEmpty(tok) = 1
    BY <1>2 DEF TokenGet
  <1>3. CASE FirstEmpty(tok) # 1
    <2>1. FirstEmpty(tok) - 1 \in Slots /\ FirstEmpty(tok) - 1 \in 1 .. FirstEmpty(tok) - 1
      BY <1>1, <1>3, Constants DEF Slots
    <2> QED
      BY <1>1, <1>3, <2>1 DEF TokenGet
  <1> QED
    BY <1>2, <1>3

\* A token written after all the others is the one that is found.
LEMMA TokenGetLast ==
  ASSUME NEW tok, NEW s \in Slots, s + 1 \in Slots, tok[s + 1] = Erased,
         \A r \in 1 .. s : tok[r] # Erased
  PROVE  TokenGet(tok) = tok[s]
  <1>1. FirstEmpty(tok) = s + 1
    BY FirstEmptyIs, Constants DEF Slots
  <1> QED
    BY <1>1, Constants DEF TokenGet, Slots

\* A parameter keeps an accepted value.
LEMMA AcceptType ==
  ASSUME NEW old \in Accepted, NEW v
  PROVE  Accept(old, v) \subseteq Accepted
  BY Constants DEF Accept

\* Who runs has every more urgent task idle.
LEMMA Preempted ==
  ASSUME NEW t \in Tasks, CanRun(t)
  PROVE  /\ t \in Savers => pc["radio"] = "idle"
         /\ t = "comm" => pc["supervisor"] = "idle"
  BY DEF CanRun, Urgent, Tasks, Savers

-------------------------------------------------------------------------------
(* Types, places and room *)

LEMMA LayoutInit == Init => Layout
  <1> SUFFICES ASSUME Init PROVE Layout
    OBVIOUS
  <1>1. /\ p \in Lists /\ rec \in [Params -> Words]
        /\ tokens \in [Slots -> Binds \cup {Erased, Torn, Mixed}]
        /\ at \in [Tasks -> 1 .. NumParams + NumSlots] /\ \A t \in Tasks : at[t] = 1
        /\ pc \in [Tasks -> SavePoints \cup {"idle", "load"}] /\ \A t \in Tasks : pc[t] = "idle"
        /\ copy \in [Tasks -> Binds \cup {Torn, Mixed, None}] /\ list \in [Savers -> Lists \cup {None}]
        /\ intended = None /\ saved = None /\ bound = None
    BY Constants DEF Init, Defaults, Lists, Blank, Words, Unused
  <1>2. unlocked \in BOOLEAN /\ clash \in BOOLEAN
    BY DEF Init
  <1>3. /\ count \in [changes : 0 .. MaxChanges, saves : 0 .. MaxSaves, stores : 0 .. MaxStores,
                      faults : 0 .. MaxFaults, boots : 0 .. MaxBoots]
        /\ count.stores = 0 /\ count.saves = 0
    BY Constants DEF Init
  <1>4. TypeOK
    BY <1>1, <1>2, <1>3 DEF TypeOK
  <1>5. Places
    BY <1>1 DEF Places, Tasks, Savers, TokenPoints, SlotPoints, ListPoints
  <1>6. Room
    <2>1. tokens = Unused
      BY DEF Init
    <2> QED
      BY <1>1, <1>3, <2>1 DEF Room, Taken, Owed, Unused, Tasks, Savers, SlotPoints
  <1> QED
    BY <1>4, <1>5, <1>6 DEF Layout

\* The first empty slot is there.
LEMMA FindsSlot ==
  ASSUME Layout
  PROVE  /\ FirstEmpty(tokens) \in Slots
         /\ FirstEmpty(tokens) <= Taken + 1
         /\ Taken + 1 \in Slots
         /\ tokens[Taken + 1] = Erased
         /\ tokens[FirstEmpty(tokens)] = Erased
  <1>1. count.stores \in 0 .. MaxStores /\ count.saves \in 0 .. MaxSaves /\ Taken \in Nat
    BY DEF Layout, TypeOK, Room
  <1>2. Owed("radio") \in {0, 1} /\ Owed("supervisor") \in {0, 1} /\ Owed("comm") \in {0, 1}
    BY DEF Owed
  <1>3. Taken + 1 \in Slots
    BY <1>1, <1>2, Constants DEF Taken, Slots
  <1>4. tokens[Taken + 1] = Erased
    BY <1>1, <1>3 DEF Layout, Room
  <1> QED
    BY <1>3, <1>4, FirstEmptyExists

\* The counters but those of the stores and the saves.
Counted ==
  /\ count' \in [changes : 0 .. MaxChanges, saves : 0 .. MaxSaves, stores : 0 .. MaxStores,
                 faults : 0 .. MaxFaults, boots : 0 .. MaxBoots]
  /\ count'.stores = count.stores /\ count'.saves = count.saves

LEMMA FaultCounted == Layout /\ (Fault \/ count' = count) => Counted
  BY Constants DEF Layout, TypeOK, Fault, Counted

\* A task has written its slot, and goes on or ends its token.
LEMMA SlotWritten ==
  ASSUME Layout, Counted, NEW t \in Tasks, pc[t] \in {"key", "data"},
         NEW w \in Binds \cup {Erased, Torn, Mixed},
         tokens' \in {tokens, [tokens EXCEPT ![at[t]] = w]},
         \/ Goto(t, "data") /\ UNCHANGED <<unlocked, at, copy, list>>
         \/ EndToken(t),
         bound' \in {bound, None} \cup Binds,
         UNCHANGED <<p, rec, intended, saved, clash>>
  PROVE  Layout'
  <1>1. unlocked' \in BOOLEAN
    BY DEF EndToken, Layout, TypeOK
  <1>2. \/ pc' = [pc EXCEPT ![t] = "data"] /\ UNCHANGED <<at, copy, list>>
        \/ /\ t = "radio" /\ list' = list
           /\ pc' = [pc EXCEPT ![t] = "idle"] /\ at' = [at EXCEPT ![t] = 1]
           /\ copy' = [copy EXCEPT ![t] = None]
        \/ /\ t \in Savers /\ UNCHANGED <<copy, list>>
           /\ pc' = [pc EXCEPT ![t] = "list"] /\ at' = [at EXCEPT ![t] = 1]
    BY DEF EndToken, Leave, Goto, Tasks, Savers
  <1>3. TypeOK'
    <2>1. pc' \in [Tasks -> SavePoints \cup {"idle", "load"}]
      BY <1>2 DEF Layout, TypeOK, SavePoints, TokenPoints
    <2>2. at' \in [Tasks -> 1 .. NumParams + NumSlots]
      BY <1>2, Constants DEF Layout, TypeOK
    <2>3. /\ copy' \in [Tasks -> Binds \cup {Torn, Mixed, None}]
          /\ list' \in [Savers -> Lists \cup {None}]
          /\ tokens' \in [Slots -> Binds \cup {Erased, Torn, Mixed}]
      BY <1>2 DEF Layout, TypeOK
    <2>4. bound' \in Binds \cup {None} /\ clash' \in BOOLEAN
      BY DEF Layout, TypeOK
    <2> QED
      BY <1>1, <2>1, <2>2, <2>3, <2>4 DEF Counted, Layout, TypeOK
  <1>4. Places'
    BY <1>2 DEF Layout, TypeOK, Places, Tasks, Savers, TokenPoints, SlotPoints, ListPoints
  <1>5. Room'
    <2>1. Taken' = Taken
      BY <1>2 DEF Counted, Layout, TypeOK, Taken, Owed, Tasks, Savers
    <2>2. \A u \in Tasks : pc'[u] \in SlotPoints => pc[u] \in SlotPoints /\ at'[u] = at[u]
      BY <1>2 DEF SlotPoints, Layout, TypeOK
    <2>3. \A s \in Slots : s # at[t] => tokens'[s] = tokens[s]
      BY DEF Layout, TypeOK
    <2>4. at[t] <= Taken /\ Taken \in Nat
      BY DEF Layout, Room, SlotPoints
    <2> QED
      BY <2>1, <2>2, <2>3, <2>4 DEF Layout, Room, Slots
  <1> QED
    BY <1>3, <1>4, <1>5 DEF Layout

\* A save has written its record, and goes on or ends.
LEMMA RecordWritten ==
  ASSUME Layout, Counted, NEW t \in Savers, pc[t] \in {"name", "value"},
         NEW w \in Words, rec' \in {rec, [rec EXCEPT ![at[t]] = w]},
         \/ Goto(t, "value") /\ UNCHANGED <<unlocked, at, copy, list, saved>>
         \/ /\ at[t] < NumParams
            /\ Goto(t, "name") /\ at' = [at EXCEPT ![t] = at[t] + 1]
            /\ UNCHANGED <<unlocked, copy, list, saved>>
         \/ unlocked' = FALSE /\ Leave(t) /\ saved' \in {saved, list[t]},
         UNCHANGED <<p, tokens, intended, bound, clash>>
  PROVE  Layout'
  <1>1. unlocked' \in BOOLEAN
    BY DEF Layout, TypeOK
  <1>2. saved' \in Lists \cup {None}
    BY DEF Layout, TypeOK, Goto
  <1>3. \/ pc' = [pc EXCEPT ![t] = "value"] /\ UNCHANGED <<at, copy, list>>
        \/ /\ pc' = [pc EXCEPT ![t] = "name"] /\ at' = [at EXCEPT ![t] = at[t] + 1]
           /\ at[t] < NumParams /\ UNCHANGED <<copy, list>>
        \/ /\ pc' = [pc EXCEPT ![t] = "idle"] /\ at' = [at EXCEPT ![t] = 1]
           /\ copy' = [copy EXCEPT ![t] = None] /\ list' = [list EXCEPT ![t] = None]
    BY DEF Leave, Goto
  <1>4. t \in Tasks /\ t # "radio" /\ at[t] \in Params /\ list[t] \in Lists
    BY DEF Layout, Places, Tasks, Savers, ListPoints
  <1>5. TypeOK'
    <2>1. pc' \in [Tasks -> SavePoints \cup {"idle", "load"}]
      BY <1>3 DEF Layout, TypeOK, SavePoints
    <2>2. at' \in [Tasks -> 1 .. NumParams + NumSlots]
      <3>1. /\ 1 \in 1 .. NumParams + NumSlots
            /\ at[t] < NumParams => at[t] + 1 \in 1 .. NumParams + NumSlots
        BY <1>4, Constants DEF Params
      <3> QED
        BY <1>3, <3>1 DEF Layout, TypeOK
    <2>3. /\ copy' \in [Tasks -> Binds \cup {Torn, Mixed, None}]
          /\ list' \in [Savers -> Lists \cup {None}]
          /\ rec' \in [Params -> Words]
      BY <1>3 DEF Layout, TypeOK
    <2>4. clash' \in BOOLEAN
      BY DEF Layout, TypeOK
    <2> QED
      BY <1>1, <1>2, <2>1, <2>2, <2>3, <2>4 DEF Counted, Layout, TypeOK
  <1>6. Places'
    <2>1. at[t] < NumParams => at[t] + 1 \in Params
      BY <1>4, Constants DEF Params
    <2> QED
      BY <1>3, <1>4, <2>1 DEF Layout, TypeOK, Places, Tasks, Savers, TokenPoints, SlotPoints, ListPoints
  <1>7. Room'
    <2>1. Taken' = Taken
      BY <1>3, <1>4 DEF Counted, Layout, TypeOK, Taken, Owed, Tasks, Savers
    <2>2. \A u \in Tasks : pc'[u] \in SlotPoints => pc[u] \in SlotPoints /\ at'[u] = at[u]
      BY <1>3, <1>4 DEF SlotPoints, Layout, TypeOK
    <2> QED
      BY <2>1, <2>2 DEF Layout, Room
  <1> QED
    BY <1>5, <1>6, <1>7 DEF Layout

LEMMA LayoutStep == Layout /\ [Next]_vars => Layout'
  <1> SUFFICES ASSUME Layout, [Next]_vars PROVE Layout'
    OBVIOUS
  <1> USE Constants
  <1>1. ASSUME NEW i \in Params, NEW v \in Values \cup {NaN}, SetParam(i, v) PROVE Layout'
    <2>1. /\ count' = [count EXCEPT !.changes = @ + 1] /\ count.changes < MaxChanges
          /\ p' \in SetByID(i, v)
          /\ UNCHANGED <<rec, tokens, unlocked, pc, at, copy, list, intended, saved, bound, clash>>
      BY <1>1 DEF SetParam, flash, locals, history
    <2>2. p' \in Lists
      BY <2>1, AcceptType DEF SetByID, Lists, Layout, TypeOK
    <2> QED
      BY <2>1, <2>2 DEF Layout, TypeOK, Places, Room, Taken, Owed
  <1>2. ASSUME NEW i \in Params, NEW v \in Values, Calibrate(i, v) PROVE Layout'
    <2>1. /\ count' = [count EXCEPT !.changes = @ + 1] /\ count.changes < MaxChanges
          /\ p' = [p EXCEPT ![i] = v]
          /\ UNCHANGED <<rec, tokens, unlocked, pc, at, copy, list, intended, saved, bound, clash>>
      BY <1>2 DEF Calibrate, flash, locals, history
    <2>2. p' \in Lists
      BY <2>1 DEF Lists, Layout, TypeOK
    <2> QED
      BY <2>1, <2>2 DEF Layout, TypeOK, Places, Room, Taken, Owed
  <1>3. ASSUME LoadDefault PROVE Layout'
    <2>1. /\ p' \in Lists
          /\ UNCHANGED <<rec, tokens, unlocked, pc, at, copy, list, intended, saved, bound, clash>>
          /\ count' = count
      BY <1>3 DEF LoadDefault, Defaults, Lists, flash, locals, history
    <2> QED
      BY <2>1 DEF Layout, TypeOK, Places, Room, Taken, Owed
  <1>4. ASSUME Load PROVE Layout'
    <2>1. /\ p' \in Lists
          /\ pc["comm"] \in {"idle", "load"}
          /\ \/ pc' = [pc EXCEPT !["comm"] = "idle"] /\ at' = [at EXCEPT !["comm"] = 1]
             \/ /\ pc' = [pc EXCEPT !["comm"] = "load"]
                /\ \E i \in Params : at' = [at EXCEPT !["comm"] = i]
          /\ UNCHANGED <<rec, tokens, unlocked, copy, list, intended, saved, bound, clash>>
          /\ count' = count
      <3>1. CASE /\ pc["comm"] = "idle" /\ Goto("comm", "load")
                 /\ at' = [at EXCEPT !["comm"] = 1] /\ p' = p
        <4>1. 1 \in Params /\ p \in Lists
          BY DEF Params, Layout, TypeOK
        <4> QED
          BY <1>4, <3>1, <4>1 DEF Load, Goto, flash, history
      <3>2. CASE pc["comm"] = "load"
        <4>1. at["comm"] \in Params /\ "comm" \in Tasks
          BY <3>2 DEF Layout, Places, Tasks, Savers
        <4> DEFINE i    == at["comm"]
                   last == i = NumParams \/ rec[i] = Erased
        <4>2. /\ p' \in SetByID(i, rec[i])
              /\ pc' = [pc EXCEPT !["comm"] = IF last THEN "idle" ELSE "load"]
              /\ at' = [at EXCEPT !["comm"] = IF last THEN 1 ELSE i + 1]
          BY <1>4, <3>2 DEF Load, Goto
        <4>3. p' \in Lists
          BY <4>1, <4>2, AcceptType DEF SetByID, Lists, Layout, TypeOK
        <4>4. ~last => i + 1 \in Params
          BY <4>1 DEF Params
        <4> HIDE DEF last
        <4> QED
          BY <1>4, <3>2, <4>2, <4>3, <4>4 DEF Load, flash, history
      <3> QED
        BY <1>4, <3>1, <3>2 DEF Load
    <2>2. PICK point \in {"idle", "load"}, i \in Params :
            /\ pc' = [pc EXCEPT !["comm"] = point] /\ at' = [at EXCEPT !["comm"] = i]
            /\ point = "idle" => i = 1
      BY <2>1 DEF Params
    <2>3. TypeOK'
      <3>1. i \in 1 .. NumParams + NumSlots
        BY DEF Params
      <3>2. at' \in [Tasks -> 1 .. NumParams + NumSlots]
        BY <2>2, <3>1 DEF Layout, TypeOK
      <3>3. pc' \in [Tasks -> SavePoints \cup {"idle", "load"}]
        BY <2>2 DEF Layout, TypeOK
      <3> QED
        BY <2>1, <3>2, <3>3 DEF Layout, TypeOK
    <2>4. Places'
      BY <2>1, <2>2 DEF Layout, TypeOK, Places, Params, Tasks, Savers, SavePoints, TokenPoints, SlotPoints, ListPoints
    <2>5. Room'
      BY <2>1, <2>2 DEF Layout, TypeOK, Room, Taken, Owed, Tasks, Savers, SlotPoints
    <2> QED
      BY <2>3, <2>4, <2>5 DEF Layout
  <1>5. ASSUME NEW b \in Binds, StoreBind(b) PROVE Layout'
    <2>1. /\ pc["radio"] = "idle" /\ count.stores < MaxStores
          /\ count' = [count EXCEPT !.stores = @ + 1]
          /\ pc' = [pc EXCEPT !["radio"] = "token"] /\ copy' = [copy EXCEPT !["radio"] = b]
          /\ bound' = None /\ clash' = (clash \/ \E t \in Savers : Saving(t))
          /\ UNCHANGED <<p, rec, tokens, unlocked, at, list, intended, saved>>
      BY <1>5 DEF StoreBind, Goto, flash
    <2>2. clash' \in BOOLEAN
      BY <2>1 DEF Layout, TypeOK
    <2>3. TypeOK'
      BY <2>1, <2>2 DEF Layout, TypeOK, Tasks, Savers, SavePoints, TokenPoints
    <2>4. Places'
      BY <2>1 DEF Layout, TypeOK, Places, Tasks, Savers, TokenPoints, SlotPoints, ListPoints
    <2>5. Room'
      BY <2>1 DEF Layout, TypeOK, Room, Taken, Owed, Tasks, Savers, SlotPoints
    <2> QED
      BY <2>3, <2>4, <2>5 DEF Layout
  <1>6. ASSUME NEW t \in Tasks, FindEmpty(t) PROVE Layout'
    <2>1. /\ pc[t] = "token" /\ count' = count
          /\ \/ /\ copy[t] = None /\ t \in Savers
                /\ pc' = [pc EXCEPT ![t] = "list"] /\ at' = at
             \/ /\ copy[t] # None
                /\ pc' = [pc EXCEPT ![t] = "tokenUnlock"]
                /\ at' = [at EXCEPT ![t] = FirstEmpty(tokens)]
          /\ UNCHANGED <<p, rec, tokens, unlocked, copy, list, intended, saved, bound, clash>>
      BY <1>6 DEF FindEmpty, Goto, flash, history, Layout, Places, Tasks
    <2>2. FirstEmpty(tokens) \in Slots /\ FirstEmpty(tokens) <= Taken + 1
          /\ FirstEmpty(tokens) \in 1 .. NumParams + NumSlots
      BY FindsSlot DEF Layout, Slots
    <2>3. TypeOK'
      BY <2>1, <2>2 DEF Layout, TypeOK, Tasks, Savers, SavePoints, TokenPoints
    <2>4. Places'
      BY <2>1, <2>2 DEF Layout, TypeOK, Places, Tasks, Savers, TokenPoints, SlotPoints, ListPoints
    <2>5. Room'
      <3>1. Taken' = Taken + 1
        BY <2>1 DEF Layout, TypeOK, Taken, Owed, Tasks, Savers
      <3>2. \A u \in Tasks : pc'[u] \in SlotPoints => u = t \/ pc[u] \in SlotPoints
        BY <2>1 DEF SlotPoints, Layout, TypeOK
      <3>3. pc'[t] \in SlotPoints => at'[t] <= Taken + 1
        BY <2>1, <2>2 DEF SlotPoints, Layout, TypeOK
      <3>4. \A u \in Tasks \ {t} : at'[u] = at[u] /\ at[u] \in Nat
        BY <2>1 DEF Layout, TypeOK
      <3> QED
        BY <2>1, <3>1, <3>2, <3>3, <3>4 DEF Layout, Room, Slots
    <2> QED
      BY <2>3, <2>4, <2>5 DEF Layout
  <1>7. ASSUME NEW t \in Tasks, NEW from, NEW to, Unlock(t, from, to),
               <<from, to>> \in {<<"tokenUnlock", "key">>, <<"eraseUnlock", "erase">>, <<"unlock", "name">>}
        PROVE  Layout'
    <2>1. /\ pc[t] = from /\ count' = count
          /\ pc' = [pc EXCEPT ![t] = to]
          /\ UNCHANGED <<p, rec, tokens, at, copy, list, intended, saved, bound, clash>>
      BY <1>7 DEF Unlock, Goto, history
    <2>2. unlocked' \in BOOLEAN
      BY <1>7 DEF Unlock
    <2>3. TypeOK'
      BY <2>1, <1>7, <2>2 DEF Layout, TypeOK, Tasks, Savers, SavePoints, TokenPoints
    <2>4. Places'
      <3>1. /\ to \in SlotPoints => from \in SlotPoints
            /\ to = "name" => from = "unlock" /\ t # "radio"
            /\ to = "erase" => from = "eraseUnlock" /\ t # "radio"
            /\ to \in {"key", "name", "erase"}
        BY <1>7, <2>1 DEF SlotPoints, Layout, Places, TokenPoints
      <3> QED
        BY <2>1, <3>1, SMTT(30) DEF Layout, TypeOK, Places, Tasks, Savers, Params, TokenPoints, SlotPoints, ListPoints
    <2>5. Room'
      BY <2>1, <1>7 DEF Layout, TypeOK, Room, Taken, Owed, Tasks, Savers, SlotPoints
    <2> QED
      BY <2>3, <2>4, <2>5 DEF Layout
  <1>8. ASSUME NEW t \in Tasks, Key(t) PROVE Layout'
    <2>1. Counted
      BY <1>8, FaultCounted DEF Key
    <2> DEFINE w == IF tokens[at[t]] = Erased THEN Torn ELSE tokens[at[t]]
    <2>2. pc[t] = "key" /\ at[t] \in Slots
      BY <1>8 DEF Key, Layout, Places, SlotPoints
    <2>3. w \in Binds \cup {Erased, Torn, Mixed}
      BY <2>2 DEF Layout, TypeOK
    <2>4. tokens' \in {tokens, [tokens EXCEPT ![at[t]] = w]}
      BY <1>8 DEF Key
    <2>5. /\ \/ Goto(t, "data") /\ UNCHANGED <<unlocked, at, copy, list>>
             \/ EndToken(t)
          /\ bound' \in {bound, None} \cup Binds
          /\ UNCHANGED <<p, rec, intended, saved, clash>>
      BY <1>8 DEF Key
    <2> HIDE DEF w
    <2> QED
      BY <2>1, <2>2, <2>3, <2>4, <2>5, SlotWritten
  <1>9. ASSUME NEW t \in Tasks, Data(t) PROVE Layout'
    <2>1. Counted
      BY <1>9, FaultCounted DEF Data
    <2> DEFINE w == Over(tokens[at[t]], copy[t])
    <2>2. /\ pc[t] = "data" /\ at[t] \in Slots /\ copy[t] # None
          /\ t = "radio" => copy[t] \in Binds
      BY <1>9 DEF Data, Layout, Places, SlotPoints, TokenPoints
    <2>3. w \in Binds \cup {Erased, Torn, Mixed}
      BY <2>2 DEF Over, Layout, TypeOK
    <2>4. tokens' \in {tokens, [tokens EXCEPT ![at[t]] = w]}
      BY <1>9 DEF Data
    <2>5. EndToken(t) /\ UNCHANGED <<p, rec, intended, saved, clash>>
      BY <1>9 DEF Data
    <2>6. bound' \in {bound, None} \cup Binds
      BY <1>9, <2>2 DEF Data
    <2> HIDE DEF w
    <2> QED
      BY <2>1, <2>2, <2>3, <2>4, <2>5, <2>6, SlotWritten
  <1>10. ASSUME NEW t \in Savers, StartSave(t) PROVE Layout'
    <2>1. /\ pc[t] = "idle" /\ count.saves < MaxSaves
          /\ count' = [count EXCEPT !.saves = @ + 1]
          /\ pc' = [pc EXCEPT ![t] = "eraseUnlock"]
          /\ copy' = [copy EXCEPT ![t] = TokenGet(tokens)]
          /\ UNCHANGED <<p, rec, tokens, unlocked, at, list, intended, saved>>
          /\ bound' \in {None, bound}
      BY <1>10 DEF StartSave, Goto, flash, OneInstance
    <2>2. clash' \in BOOLEAN
      BY <1>10 DEF StartSave, Layout, TypeOK
    <2>3. TokenGet(tokens) \in Binds \cup {Torn, Mixed, None}
      BY FindsSlot, TokenGetType DEF Layout, TypeOK
    <2>4. TypeOK'
      BY <2>1, <2>2, <2>3 DEF Layout, TypeOK, Tasks, Savers, SavePoints, TokenPoints
    <2>5. Places'
      BY <2>1 DEF Layout, TypeOK, Places, Tasks, Savers, TokenPoints, SlotPoints, ListPoints
    <2>6. Room'
      BY <2>1 DEF Layout, TypeOK, Room, Taken, Owed, Tasks, Savers, SlotPoints
    <2> QED
      BY <2>4, <2>5, <2>6 DEF Layout
  <1>11. ASSUME NEW t \in Savers, Erase(t) PROVE Layout'
    <2>1. Counted
      BY <1>11, FaultCounted DEF Erase
    <2>2. /\ pc[t] = "erase" /\ unlocked' = FALSE /\ p' = p
          /\ \/ rec' = Blank /\ tokens' = Unused /\ intended' = None /\ saved' = None
             \/ UNCHANGED <<rec, tokens, intended, saved>>
          /\ bound' \in {bound, None}
          /\ \/ pc' = [pc EXCEPT ![t] = "token"] /\ UNCHANGED <<at, copy, list>>
             \/ /\ pc' = [pc EXCEPT ![t] = "idle"] /\ at' = [at EXCEPT ![t] = 1]
                /\ copy' = [copy EXCEPT ![t] = None] /\ list' = [list EXCEPT ![t] = None]
      BY <1>11 DEF Erase, Leave, Goto, EraseSector, history
    <2>3. clash' \in BOOLEAN
      BY <1>11 DEF Erase, Layout, TypeOK, history
    <2>4. TypeOK'
      <3>1. /\ rec' \in [Params -> Words] /\ tokens' \in [Slots -> Binds \cup {Erased, Torn, Mixed}]
            /\ intended' \in Lists \cup {None} /\ saved' \in Lists \cup {None}
            /\ bound' \in Binds \cup {None}
        BY <2>2 DEF Layout, TypeOK, Blank, Unused, Words
      <3>2. /\ pc' \in [Tasks -> SavePoints \cup {"idle", "load"}]
            /\ at' \in [Tasks -> 1 .. NumParams + NumSlots]
            /\ copy' \in [Tasks -> Binds \cup {Torn, Mixed, None}]
            /\ list' \in [Savers -> Lists \cup {None}]
        BY <2>2 DEF Layout, TypeOK, SavePoints, TokenPoints
      <3>3. unlocked' \in BOOLEAN /\ p' \in Lists
        BY <2>2 DEF Layout, TypeOK
      <3> QED
        BY <2>1, <2>3, <3>1, <3>2, <3>3 DEF Counted, TypeOK
    <2>5. Places'
      BY <2>2 DEF Layout, TypeOK, Places, Tasks, Savers, TokenPoints, SlotPoints, ListPoints
    <2>6. Room'
      <3>1. Taken' \in Nat /\ Taken' >= Taken /\ Taken \in Nat
        BY <2>1, <2>2 DEF Counted, Layout, TypeOK, Room, Taken, Owed, Tasks, Savers
      <3>2. \A u \in Tasks : pc'[u] \in SlotPoints => pc[u] \in SlotPoints /\ at'[u] = at[u] /\ at[u] \in Nat
        BY <2>2 DEF SlotPoints, Layout, TypeOK
      <3> QED
        BY <2>2, <3>1, <3>2 DEF Layout, Room, Slots, Unused
    <2> QED
      BY <2>4, <2>5, <2>6 DEF Layout
  <1>12. ASSUME NEW t \in Savers, MakeList(t) PROVE Layout'
    <2>1. /\ pc[t] = "list"
          /\ list' = [list EXCEPT ![t] = p] /\ copy' = [copy EXCEPT ![t] = None]
          /\ intended' = p /\ pc' = [pc EXCEPT ![t] = "unlock"]
          /\ UNCHANGED <<p, rec, tokens, unlocked, at, saved, bound, clash>> /\ count' = count
      BY <1>12 DEF MakeList, Goto, flash
    <2>2. TypeOK'
      BY <2>1 DEF Layout, TypeOK, Tasks, Savers, SavePoints, TokenPoints
    <2>3. Places'
      BY <2>1 DEF Layout, TypeOK, Places, Tasks, Savers, TokenPoints, SlotPoints, ListPoints
    <2>4. Room'
      BY <2>1 DEF Layout, TypeOK, Room, Taken, Owed, Tasks, Savers, SlotPoints
    <2> QED
      BY <2>2, <2>3, <2>4 DEF Layout
  <1>13. ASSUME NEW t \in Savers, Name(t) PROVE Layout'
    <2>1. Counted
      BY <1>13, FaultCounted DEF Name
    <2> DEFINE w == IF rec[at[t]] = Erased THEN NaN ELSE rec[at[t]]
    <2>2. pc[t] = "name" /\ at[t] \in Params /\ t \in Tasks
      BY <1>13 DEF Name, Layout, Places, Tasks
    <2>3. w \in Words
      BY <2>2 DEF Layout, TypeOK, Words
    <2>4. rec' \in {rec, [rec EXCEPT ![at[t]] = w]}
      BY <1>13 DEF Name
    <2>5. /\ \/ Goto(t, "value") /\ UNCHANGED <<unlocked, at, copy, list, saved>>
             \/ unlocked' = FALSE /\ Leave(t) /\ saved' \in {saved, list[t]}
          /\ UNCHANGED <<p, tokens, intended, bound, clash>>
      BY <1>13 DEF Name, Fail
    <2> HIDE DEF w
    <2> QED
      BY <2>1, <2>2, <2>3, <2>4, <2>5, RecordWritten
  <1>14. ASSUME NEW t \in Savers, Value(t) PROVE Layout'
    <2>1. Counted
      BY <1>14, FaultCounted DEF Value
    <2> DEFINE w == Over(rec[at[t]], list[t][at[t]])
    <2>2. pc[t] = "value" /\ at[t] \in Params /\ t \in Tasks /\ list[t] \in Lists
      BY <1>14 DEF Value, Layout, Places, Tasks, ListPoints
    <2>3. w \in Words
      BY <2>2 DEF Layout, TypeOK, Over, Words, Lists
    <2>4. rec' \in {rec, [rec EXCEPT ![at[t]] = w]}
      BY <1>14 DEF Value
    <2>5. /\ \/ /\ at[t] < NumParams
                /\ Goto(t, "name") /\ at' = [at EXCEPT ![t] = at[t] + 1]
                /\ UNCHANGED <<unlocked, copy, list, saved>>
             \/ unlocked' = FALSE /\ Leave(t) /\ saved' \in {saved, list[t]}
          /\ UNCHANGED <<p, tokens, intended, bound, clash>>
      BY <1>14 DEF Value, Fail
    <2> HIDE DEF w
    <2> QED
      BY <2>1, <2>2, <2>3, <2>4, <2>5, RecordWritten
  <1>15. CASE Reboot
    <2>1. /\ count' = [count EXCEPT !.boots = @ + 1] /\ count.boots < MaxBoots
          /\ pc' = [t \in Tasks |-> "idle"] /\ at' = [t \in Tasks |-> 1]
          /\ copy' = [t \in Tasks |-> None] /\ list' = [t \in Savers |-> None]
          /\ unlocked' = FALSE /\ bound' \in {bound, None}
          /\ UNCHANGED <<rec, tokens, intended, saved, clash>>
      BY <1>15 DEF Reboot
    <2>2. p' \in Lists
      <3>1. PICK q \in [Params -> Words] :
              /\ p' = q
              /\ \A i \in Params : q[i] \in IF \E j \in 1 .. i : rec[j] = Erased
                                          THEN {Default} ELSE Accept(Default, rec[i])
        BY <1>15 DEF Reboot
      <3>2. \A i \in Params : q[i] \in Accepted
        BY <3>1, AcceptType
      <3> QED
        BY <3>1, <3>2 DEF Lists
    <2>3. TypeOK'
      <3>1. unlocked' \in BOOLEAN /\ clash' \in BOOLEAN
        BY <2>1 DEF Layout, TypeOK
      <3>2. /\ pc' \in [Tasks -> SavePoints \cup {"idle", "load"}]
            /\ at' \in [Tasks -> 1 .. NumParams + NumSlots]
            /\ copy' \in [Tasks -> Binds \cup {Torn, Mixed, None}]
            /\ list' \in [Savers -> Lists \cup {None}]
        BY <2>1
      <3> QED
        BY <2>1, <2>2, <3>1, <3>2 DEF Layout, TypeOK
    <2>4. Places'
      BY <2>1 DEF Layout, TypeOK, Places, Tasks, Savers, TokenPoints, SlotPoints, ListPoints
    <2>5. Room'
      <3>1. /\ count.stores \in Nat /\ count.saves \in Nat
            /\ count'.stores = count.stores /\ count'.saves = count.saves
        BY <2>1 DEF Layout, TypeOK
      <3>2. \A t \in Tasks : pc'[t] = "idle"
        BY <2>1
      <3>3. Owed("radio")' = 0 /\ Owed("supervisor")' = 0 /\ Owed("comm")' = 0
        BY <3>2 DEF Owed, Tasks, Savers
      <3>4. Taken' \in Nat /\ Taken' >= Taken
        BY <3>1, <3>3 DEF Taken, Owed
      <3> QED
        BY <2>1, <3>2, <3>4 DEF Layout, TypeOK, Room, SlotPoints, Slots
    <2> QED
      BY <2>3, <2>4, <2>5 DEF Layout
  <1>16. CASE UNCHANGED vars
    BY <1>16 DEF vars, flash, locals, history, Layout, TypeOK, Places, Room, Taken, Owed
  <1> QED
    BY <1>1, <1>2, <1>3, <1>4, <1>5, <1>6, <1>7, <1>8, <1>9, <1>10, <1>11, <1>12, <1>13,
       <1>14, <1>15, <1>16 DEF Next, TokenStep, SaverStep, Tasks

-------------------------------------------------------------------------------
(* The records *)

\* With no clash, what a task at work reads and writes is its own.
LEMMA AtWork ==
  ASSUME Layout, Alone, NEW t \in Tasks, pc[t] \in SavePoints, ~clash
  PROVE  /\ \A u \in Tasks \ {t} : pc[u] \in {"idle", "load"}
         /\ pc[t] \in {"erase", "key", "data", "name", "value"} => unlocked
  BY DEF Layout, TypeOK, Alone

\* One task goes to its next point.
LEMMA OneMoves ==
  ASSUME Layout, Alone, NEW t \in Tasks, pc[t] \in SavePoints, clash' = clash,
         NEW x, pc' = [pc EXCEPT ![t] = x],
         x \in {"erase", "key", "data", "name", "value"} /\ ~clash => unlocked',
         ~clash => /\ \E k \in 0 .. NumParams : Prefix(k)'
                   /\ t \in Savers => Progress(t)'
  PROVE  Alone' /\ Records'
  <1>1. ~clash => \A u \in Tasks \ {t} : pc'[u] \in {"idle", "load"}
    BY AtWork DEF Layout, TypeOK
  <1>2. Alone'
    BY <1>1 DEF Alone, SavePoints, TokenPoints, Layout, TypeOK
  <1>3. ~clash => \A u \in Savers \ {t} : Progress(u)'
    BY <1>1 DEF Progress, Tasks, TokenPoints, ListPoints
  <1> QED
    BY <1>2, <1>3 DEF Records

LEMMA WorkInit == Init => Work
  <1> SUFFICES ASSUME Init PROVE Work
    OBVIOUS
  <1>1. Alone
    BY DEF Init, Alone, SavePoints, TokenPoints
  <1>2. Prefix(0)
    BY Constants DEF Init, Prefix, Blank, Params
  <1>3. \A t \in Savers : Progress(t)
    BY DEF Init, Progress, TokenPoints, ListPoints, Savers, Tasks
  <1> QED
    BY <1>1, <1>2, <1>3, Constants DEF Work, Records, SaveDurable, Init

LEMMA WorkStep == Layout /\ Layout' /\ Work /\ [Next]_vars => Work'
  <1> SUFFICES ASSUME Layout, Layout', Work, [Next]_vars PROVE Work'
    OBVIOUS
  <1> USE Constants
  <1>1. ASSUME NEW i \in Params, NEW v \in Values \cup {NaN}, SetParam(i, v) PROVE Work'
    BY <1>1 DEF SetParam, flash, locals, history, Work, Alone, Records, Prefix, Progress, SaveDurable
  <1>2. ASSUME NEW i \in Params, NEW v \in Values, Calibrate(i, v) PROVE Work'
    BY <1>2 DEF Calibrate, flash, locals, history, Work, Alone, Records, Prefix, Progress, SaveDurable
  <1>3. ASSUME LoadDefault PROVE Work'
    BY <1>3 DEF LoadDefault, flash, locals, history, Work, Alone, Records, Prefix, Progress, SaveDurable
  <1>4. ASSUME Load PROVE Work'
    <2>1. /\ pc["comm"] \in {"idle", "load"}
          /\ \A t \in Tasks : IF t = "comm" THEN pc'[t] \in {"idle", "load"}
                             ELSE pc'[t] = pc[t] /\ at'[t] = at[t]
          /\ UNCHANGED <<rec, unlocked, list, intended, saved, clash>>
      BY <1>4 DEF Load, Goto, flash, history, Layout, TypeOK
    <2>2. Alone'
      BY <2>1 DEF Work, Alone, SavePoints, TokenPoints
    <2>3. \A t \in Savers : Progress(t) => Progress(t)'
      BY <2>1 DEF Progress, Prefix, TokenPoints, ListPoints, Tasks
    <2>4. \A k : Prefix(k)' = Prefix(k)
      BY <2>1 DEF Prefix
    <2> QED
      BY <2>1, <2>2, <2>3, <2>4 DEF Work, Records, SaveDurable
  <1>5. ASSUME NEW b \in Binds, StoreBind(b) PROVE Work'
    <2>1. /\ pc["radio"] = "idle" /\ pc' = [pc EXCEPT !["radio"] = "token"]
          /\ clash' = (clash \/ \E t \in Savers : Saving(t))
          /\ UNCHANGED <<rec, unlocked, at, list, intended, saved>>
      BY <1>5 DEF StoreBind, Goto, flash
    <2>2. Alone'
      BY <2>1 DEF Work, Alone, Saving, Tasks, Savers, Layout, TypeOK
    <2>3. \A t \in Savers : Progress(t)' = Progress(t)
      BY <2>1 DEF Progress, Prefix, Tasks, Savers, Layout, TypeOK
    <2>4. \A k : Prefix(k)' = Prefix(k)
      BY <2>1 DEF Prefix
    <2> QED
      BY <2>1, <2>2, <2>3, <2>4 DEF Work, Records, SaveDurable
  <1>6. ASSUME NEW t \in Tasks, TokenStep(t) PROVE Work'
    <2>1. PICK x \in TokenPoints \cup {"list", "idle"} :
            /\ pc[t] \in TokenPoints /\ pc' = [pc EXCEPT ![t] = x]
            /\ x = "idle" => t = "radio"
            /\ x \in {"key", "data"} => unlocked'
            /\ UNCHANGED <<rec, intended, saved, clash>>
      <3>1. CASE FindEmpty(t)
        BY <3>1 DEF FindEmpty, Goto, TokenPoints, flash, history
      <3>2. CASE Unlock(t, "tokenUnlock", "key")
        BY <3>2 DEF Unlock, Goto, TokenPoints, history
      <3>3. CASE Key(t)
        BY <3>3 DEF Key, Goto, EndToken, Leave, TokenPoints
      <3>4. CASE Data(t)
        BY <3>4 DEF Data, Goto, EndToken, Leave, TokenPoints
      <3> QED
        BY <1>6, <3>1, <3>2, <3>3, <3>4 DEF TokenStep
    <2>2. \A k : Prefix(k)' = Prefix(k)
      BY <2>1 DEF Prefix
    <2>3. t \in Savers /\ Progress(t) => Progress(t)'
      BY <2>1 DEF Progress, TokenPoints, ListPoints, Layout, TypeOK, Savers, Tasks
    <2>4. Alone' /\ Records'
      BY <2>1, <2>2, <2>3, OneMoves DEF Work, Records, SavePoints, TokenPoints
    <2> QED
      BY <2>1, <2>4 DEF Work, SaveDurable
  <1>7. ASSUME NEW t \in Savers, StartSave(t) PROVE Work'
    <2>1. /\ pc[t] = "idle" /\ pc["radio"] = "idle" /\ t \in Tasks
          /\ pc' = [pc EXCEPT ![t] = "eraseUnlock"]
          /\ clash' = (clash \/ \E u \in Savers \ {t} : Saving(u))
          /\ UNCHANGED <<rec, unlocked, at, list, intended, saved>>
      BY <1>7, Preempted DEF StartSave, Goto, flash, Tasks
    <2>2. ~clash' => \A u \in Tasks \ {t} : pc'[u] \notin SavePoints
      BY <2>1 DEF Saving, Tasks, Savers, SavePoints, TokenPoints, Layout, TypeOK
    <2>3. Alone'
      BY <2>1, <2>2 DEF Work, Alone, Layout, TypeOK
    <2>4. \A u \in Savers : Progress(u) => Progress(u)'
      BY <2>1 DEF Progress, Prefix, TokenPoints, ListPoints, Layout, TypeOK, Tasks
    <2>5. \A k : Prefix(k)' = Prefix(k)
      BY <2>1 DEF Prefix
    <2> QED
      BY <2>1, <2>3, <2>4, <2>5 DEF Work, Records, SaveDurable
  <1>8. ASSUME NEW t \in Savers, Unlock(t, "eraseUnlock", "erase") PROVE Work'
    <2>1. /\ pc[t] = "eraseUnlock" /\ pc' = [pc EXCEPT ![t] = "erase"] /\ t \in Tasks
          /\ unlocked' = TRUE /\ UNCHANGED <<rec, at, list, intended, saved, clash>>
      BY <1>8 DEF Unlock, Goto, history, Tasks
    <2>2. Progress(t)'
      BY <2>1 DEF Progress, TokenPoints, ListPoints, Layout, TypeOK
    <2>3. \A k : Prefix(k)' = Prefix(k)
      BY <2>1 DEF Prefix
    <2>4. Alone' /\ Records'
      BY <2>1, <2>2, <2>3, OneMoves DEF Work, Records, SavePoints
    <2> QED
      BY <2>1, <2>4 DEF Work, SaveDurable
  <1>9. ASSUME NEW t \in Savers, Erase(t) PROVE Work'
    <2>1. pc[t] = "erase" /\ pc["radio"] = "idle" /\ t \in Tasks
      BY <1>9, Preempted DEF Erase, Tasks
    <2>2. rec' = Blank /\ intended' = None => Prefix(0)'
      BY DEF Prefix, Blank, Params
    <2>3. CASE /\ EraseSector /\ pc' = [pc EXCEPT ![t] = "token"]
               /\ clash' = \E u \in Savers \ {t} : Saving(u)
      <3>1. ~clash' => \A u \in Tasks \ {t} : pc'[u] \in {"idle", "load"}
        BY <2>1, <2>3 DEF Saving, Tasks, Savers, Layout, TypeOK
      <3>2. Alone'
        BY <2>3, <3>1 DEF Alone, SavePoints, TokenPoints, Layout, TypeOK
      <3>3. ~clash' => \A u \in Savers : Progress(u)'
        <4>1. Progress(t)'
          BY <2>1, <2>3 DEF EraseSector, Progress, TokenPoints, ListPoints, Layout, TypeOK
        <4>2. ~clash' => \A u \in Savers \ {t} : Progress(u)'
          BY <3>1 DEF Progress, Tasks, TokenPoints, ListPoints
        <4> QED
          BY <4>1, <4>2
      <3>4. Prefix(0)' /\ saved' = None
        BY <2>2, <2>3 DEF EraseSector
      <3> QED
        BY <3>2, <3>3, <3>4 DEF Work, Records, SaveDurable
    <2>4. CASE ~unlocked /\ clash' = clash
      BY <2>1, <2>4 DEF Work, Alone, Records, SaveDurable
    <2>5. CASE /\ clash' = clash /\ Leave(t)
               /\ EraseSector \/ UNCHANGED <<rec, intended, saved>>
      <3>1. pc' = [pc EXCEPT ![t] = "idle"]
        BY <2>5 DEF Leave, Goto
      <3>2. Progress(t)'
        BY <3>1 DEF Progress, TokenPoints, ListPoints, Layout, TypeOK
      <3>3. ~clash => \E k \in 0 .. NumParams : Prefix(k)'
        <4>1. CASE EraseSector
          BY <2>2, <4>1 DEF EraseSector
        <4>2. CASE UNCHANGED <<rec, intended, saved>>
          <5>1. \A k : Prefix(k)' = Prefix(k)
            BY <4>2 DEF Prefix
          <5> QED
            BY <5>1 DEF Work, Records
        <4> QED
          BY <2>5, <4>1, <4>2
      <3>4. Alone' /\ Records'
        BY <2>1, <2>5, <3>1, <3>2, <3>3, OneMoves DEF Work, SavePoints
      <3> QED
        BY <2>5, <3>4 DEF Work, SaveDurable, EraseSector
    <2> QED
      BY <1>9, <2>3, <2>4, <2>5 DEF Erase, Goto, history
  <1>10. ASSUME NEW t \in Savers, MakeList(t) PROVE Work'
    <2>1. /\ pc[t] = "list" /\ pc' = [pc EXCEPT ![t] = "unlock"] /\ t \in Tasks
          /\ list' = [list EXCEPT ![t] = p] /\ intended' = p
          /\ UNCHANGED <<rec, saved, clash>>
      BY <1>10 DEF MakeList, Goto, flash, Tasks
    <2>2. ~clash => rec = Blank /\ saved = None
      BY <2>1 DEF Work, Records, Progress
    <2>3. ~clash => \E k \in 0 .. NumParams : Prefix(k)'
      <3>1. ~clash => Prefix(0)'
        BY <2>1, <2>2 DEF Prefix, Blank, Params
      <3> QED
        BY <3>1
    <2>4. ~clash => Progress(t)'
      BY <2>1, <2>2 DEF Progress, TokenPoints, ListPoints, Layout, TypeOK
    <2>5. Alone' /\ Records'
      BY <2>1, <2>3, <2>4, OneMoves DEF Work, SavePoints
    <2> QED
      BY <2>1, <2>2, <2>5 DEF Work, SaveDurable
  <1>11. ASSUME NEW t \in Savers, Unlock(t, "unlock", "name") PROVE Work'
    <2>1. /\ pc[t] = "unlock" /\ pc' = [pc EXCEPT ![t] = "name"] /\ t \in Tasks
          /\ unlocked' = TRUE /\ UNCHANGED <<rec, at, list, intended, saved, clash>>
      BY <1>11 DEF Unlock, Goto, history, Tasks
    <2>2. \A k : Prefix(k)' = Prefix(k)
      BY <2>1 DEF Prefix
    <2>3. at[t] = 1 /\ at'[t] = 1
      BY <2>1 DEF Layout, Places
    <2>4. ~clash => Progress(t)'
      <3>1. ~clash => rec = Blank /\ saved = None /\ intended = list[t]
        BY <2>1 DEF Work, Records, Progress, ListPoints
      <3>2. rec = Blank => Prefix(0) /\ rec[1] = Erased
        BY DEF Prefix, Blank, Params
      <3> QED
        BY <2>1, <2>2, <2>3, <3>1, <3>2 DEF Progress, TokenPoints, ListPoints, Layout, TypeOK
    <2>5. Alone' /\ Records'
      BY <2>1, <2>2, <2>4, OneMoves DEF Work, Records, SavePoints
    <2> QED
      BY <2>1, <2>5 DEF Work, SaveDurable
  <1>12. ASSUME NEW t \in Savers, Name(t) PROVE Work'
    <2>1. PICK i \in Params : i = at[t]
      BY <1>12 DEF Name, Layout, Places, Tasks
    <2>2. /\ pc[t] = "name" /\ t \in Tasks
          /\ UNCHANGED <<intended, saved, clash>>
          /\ rec' \in {rec, [rec EXCEPT ![i] = IF @ = Erased THEN NaN ELSE @]}
          /\ \/ /\ pc' = [pc EXCEPT ![t] = "value"] /\ unlocked'
                /\ rec' = [rec EXCEPT ![i] = IF @ = Erased THEN NaN ELSE @]
                /\ UNCHANGED <<at, list>>
             \/ pc' = [pc EXCEPT ![t] = "idle"]
      BY <1>12, <2>1 DEF Name, Fail, Leave, Goto, Tasks
    <2>3. ~clash => saved = None /\ intended = list[t] /\ Prefix(i - 1) /\ rec[i] = Erased
      BY <2>1, <2>2 DEF Work, Records, Progress, ListPoints
    <2>4. ~clash => /\ \A j \in Params : j # i => rec'[j] = rec[j]
                    /\ rec'[i] \in {Erased, NaN}
      BY <2>2, <2>3 DEF Layout, TypeOK
    <2>5. i - 1 \in 0 .. NumParams /\ (~clash => Prefix(i - 1)')
      BY <2>1, <2>2, <2>3, <2>4 DEF Prefix, Params
    <2>6. ~clash => Progress(t)'
      <3>1. CASE pc' = [pc EXCEPT ![t] = "idle"]
        BY <3>1 DEF Progress, TokenPoints, ListPoints, Layout, TypeOK
      <3>2. CASE /\ pc' = [pc EXCEPT ![t] = "value"]
                 /\ rec' = [rec EXCEPT ![i] = IF @ = Erased THEN NaN ELSE @]
                 /\ UNCHANGED <<at, list>>
        <4>1. pc'[t] = "value" /\ at'[t] = i /\ list'[t] = list[t]
          BY <2>1, <3>2 DEF Layout, TypeOK
        <4>2. ~clash => rec'[i] = NaN
          BY <2>3, <3>2 DEF Layout, TypeOK
        <4>3. ~clash => Prefix(i - 1)' /\ saved' = None /\ intended' = list'[t]
          BY <2>2, <2>3, <2>5, <4>1
        <4> QED
          BY <4>1, <4>2, <4>3 DEF Progress, TokenPoints, ListPoints
      <3> QED
        BY <2>2, <3>1, <3>2
    <2>7. Alone' /\ Records'
      <3>1. PICK x \in {"value", "idle"} : /\ pc' = [pc EXCEPT ![t] = x]
                                          /\ x = "value" => unlocked'
        BY <2>2
      <3> QED
        BY <2>2, <2>5, <2>6, <3>1, OneMoves DEF Work, SavePoints
    <2> QED
      BY <2>2, <2>3, <2>7 DEF Work, SaveDurable
  <1>13. ASSUME NEW t \in Savers, Value(t) PROVE Work'
    <2>1. PICK i \in Params : i = at[t]
      BY <1>13 DEF Value, Layout, Places, Tasks
    <2> DEFINE written == [rec EXCEPT ![i] = Over(rec[i], list[t][i])]
    <2>2. /\ pc[t] = "value" /\ t \in Tasks /\ list[t] \in Lists
          /\ UNCHANGED <<intended, clash>> /\ rec' \in {rec, written}
      BY <1>13, <2>1 DEF Value, Fail, Tasks, Layout, Places, ListPoints
    <2>3. \/ /\ pc' = [pc EXCEPT ![t] = "name"] /\ at' = [at EXCEPT ![t] = i + 1]
             /\ i < NumParams /\ rec' = written /\ UNCHANGED <<unlocked, list, saved>>
          \/ /\ pc' = [pc EXCEPT ![t] = "idle"]
             /\ i = NumParams /\ rec' = written /\ saved' = list[t]
          \/ pc' = [pc EXCEPT ![t] = "idle"] /\ saved' = saved
      BY <1>13, <2>1 DEF Value, Fail, Leave, Goto, Params
    <2>4. ~clash => saved = None /\ intended = list[t] /\ Prefix(i - 1) /\ rec[i] = NaN
      BY <2>1, <2>2 DEF Work, Records, Progress, ListPoints
    <2>5. ~clash => written = [rec EXCEPT ![i] = intended[i]]
      BY <2>4 DEF Over
    <2>6. ~clash /\ rec' = written => Prefix(i)'
      <3> SUFFICES ASSUME ~clash, rec' = written PROVE Prefix(i)'
        OBVIOUS
      <3>1. /\ \A j \in Params : j # i => rec'[j] = rec[j]
            /\ rec'[i] = intended[i]
        BY <2>5 DEF Layout, TypeOK
      <3>2. intended' # None /\ intended' = intended
        BY <2>2, <2>4
      <3> QED
        BY <2>4, <3>1, <3>2 DEF Prefix, Params
    <2>7. ~clash /\ rec' = rec => Prefix(i - 1)'
      BY <2>2, <2>4 DEF Prefix
    <2>8. ~clash => \E k \in 0 .. NumParams : Prefix(k)'
      <3>1. i \in 0 .. NumParams /\ i - 1 \in 0 .. NumParams
        BY DEF Params
      <3> HIDE DEF written
      <3> QED
        BY <2>2, <2>6, <2>7, <3>1
    <2>9. ~clash => Progress(t)'
      <3>1. CASE pc' = [pc EXCEPT ![t] = "idle"]
        BY <3>1 DEF Progress, TokenPoints, ListPoints, Layout, TypeOK
      <3>2. CASE /\ pc' = [pc EXCEPT ![t] = "name"] /\ at' = [at EXCEPT ![t] = i + 1]
                 /\ i < NumParams /\ rec' = written /\ UNCHANGED <<list, saved>>
        <4>1. pc'[t] = "name" /\ at'[t] = i + 1 /\ list'[t] = list[t] /\ at'[t] - 1 = i
          BY <2>2, <3>2 DEF Layout, TypeOK, Params
        <4>2. ~clash => rec'[i + 1] = Erased
          <5>1. i + 1 \in Params /\ i + 1 # i /\ i + 1 > i - 1 + 1
            BY <3>2 DEF Params
          <5>2. ~clash => rec[i + 1] = Erased
            BY <2>4, <5>1 DEF Prefix
          <5> QED
            BY <3>2, <5>1, <5>2 DEF Layout, TypeOK
        <4>3. ~clash => Prefix(i)' /\ saved' = None /\ intended' = list'[t]
          BY <2>2, <2>4, <2>6, <3>2, <4>1
        <4> HIDE DEF written
        <4> QED
          BY <4>1, <4>2, <4>3 DEF Progress, TokenPoints, ListPoints
      <3> QED
        BY <2>3, <3>1, <3>2
    <2>10. Alone' /\ Records'
      <3> HIDE DEF written
      <3>1. ~clash => unlocked
        BY <2>2, AtWork DEF Work, SavePoints
      <3>2. Alone /\ pc[t] \in SavePoints /\ clash' = clash
        BY <2>2 DEF Work, SavePoints
      <3>3. CASE pc' = [pc EXCEPT ![t] = "name"] /\ unlocked' = unlocked
        <4>1. ~clash => unlocked'
          BY <3>1, <3>3
        <4> QED
          BY <2>2, <2>8, <2>9, <3>2, <3>3, <4>1, OneMoves
      <3>4. CASE pc' = [pc EXCEPT ![t] = "idle"]
        BY <2>2, <2>8, <2>9, <3>2, <3>4, OneMoves
      <3> QED
        BY <2>3, <3>3, <3>4
    <2>11. SaveDurable'
      <3>1. CASE saved' = saved
        BY <2>2, <2>4, <3>1 DEF SaveDurable
      <3>2. CASE i = NumParams /\ rec' = written /\ saved' = list[t]
        <4>1. ~clash => \A j \in Params : rec'[j] = intended'[j]
          BY <2>6, <3>2 DEF Prefix, Params
        <4>2. rec' \in [Params -> Words]
          BY DEF Layout, TypeOK
        <4>3. ~clash => intended' \in Lists /\ saved' = intended'
          BY <2>2, <2>4, <3>2
        <4>4. ~clash => rec' = intended'
          BY <4>1, <4>2, <4>3 DEF Lists
        <4>5. clash' = clash
          BY <2>2
        <4> HIDE DEF written
        <4> QED
          BY <4>3, <4>4, <4>5 DEF SaveDurable
      <3> QED
        BY <2>3, <3>1, <3>2
    <2> QED
      BY <2>10, <2>11 DEF Work
  <1>14. CASE Reboot
    <2>1. /\ \A t \in Tasks : pc'[t] = "idle"
          /\ UNCHANGED <<rec, intended, saved, clash>>
      BY <1>14 DEF Reboot
    <2>2. Alone' /\ \A t \in Savers : Progress(t)'
      BY <2>1 DEF Alone, Progress, SavePoints, TokenPoints, ListPoints, Tasks
    <2>3. \A k : Prefix(k)' = Prefix(k)
      BY <2>1 DEF Prefix
    <2> QED
      BY <2>1, <2>2, <2>3 DEF Work, Records, SaveDurable
  <1>15. CASE UNCHANGED vars
    BY <1>15 DEF vars, flash, locals, history, Work, Alone, Records, Prefix, Progress, SaveDurable
  <1> QED
    BY <1>1, <1>2, <1>3, <1>4, <1>5, <1>6, <1>7, <1>8, <1>9, <1>10, <1>11, <1>12, <1>13,
       <1>14, <1>15 DEF Next, SaverStep

-------------------------------------------------------------------------------
(* The tokens *)

\* A step that has nothing to do with tokens.
LEMMA NoToken ==
  ASSUME Layout, Alone, Bindings, UNCHANGED <<tokens, bound, clash>>,
         \A u \in Tasks :
           \/ pc'[u] = pc[u] /\ at'[u] = at[u] /\ copy'[u] = copy[u]
           \/ u # "radio" /\ pc[u] \notin CopyPoints /\ pc'[u] \notin CopyPoints
           \/ pc[u] = "eraseUnlock" /\ pc'[u] = "erase" /\ copy'[u] = copy[u]
  PROVE  Bindings'
  <1>1. "radio" \in Tasks /\ Savers \subseteq Tasks
    BY DEF Tasks
  <1>2. Dense'
    BY DEF Bindings, Dense, CopyPoints, TokenPoints, SlotPoints
  <1>3. Binding'
    BY <1>1 DEF Bindings, Binding, CopyPoints, TokenPoints, Layout, Places
  <1>4. BindingKept'
    BY <1>1 DEF Bindings, BindingKept, CopyPoints, TokenPoints
  <1> QED
    BY <1>2, <1>3, <1>4 DEF Bindings

\* The slot that a task has come to, and the ones around it.
LEMMA SlotAtWork ==
  ASSUME Layout, Alone, Dense, ~clash, NEW t \in Tasks, pc[t] \in SlotPoints
  PROVE  /\ at[t] \in Slots /\ at[t] + 1 \in Slots
         /\ pc[t] \in {"tokenUnlock", "key"} => tokens[at[t]] = Erased
         /\ pc[t] = "data" => tokens[at[t]] = Torn
         /\ \A s \in Slots : /\ s < at[t] => tokens[s] # Erased
                             /\ s > at[t] => tokens[s] = Erased
         /\ \A u \in Tasks \ {t} : pc[u] \in {"idle", "load"}
  <1>1. at[t] \in Slots /\ at[t] <= Taken /\ Taken \in Nat
    BY DEF Layout, Places, Room
  <1>2. at[t] + 1 \in Slots
    <2>1. Taken + 1 \in Slots
      BY FindsSlot
    <2> QED
      BY <1>1, <2>1, Constants DEF Slots
  <1>3. \A u \in Tasks \ {t} : pc[u] \in {"idle", "load"}
    BY AtWork DEF SavePoints, TokenPoints, SlotPoints
  <1> QED
    BY <1>1, <1>2, <1>3 DEF Dense

LEMMA BindingsInit == Init => Bindings
  <1> SUFFICES ASSUME Init PROVE Bindings
    OBVIOUS
  <1>1. Dense
    BY DEF Init, Dense, Unused, SlotPoints
  <1> QED
    BY <1>1 DEF Init, Bindings, Binding, BindingKept

LEMMA BindingsStep == Layout /\ Layout' /\ Work /\ Work' /\ Bindings /\ [Next]_vars => Bindings'
  <1> SUFFICES ASSUME Layout, Layout', Work, Work', Bindings, [Next]_vars PROVE Bindings'
    OBVIOUS
  <1> USE Constants
  <1>a. Alone /\ Alone' /\ Dense /\ Binding /\ BindingKept
    BY DEF Work, Bindings
  <1>1. ASSUME NEW i \in Params, NEW v \in Values \cup {NaN}, SetParam(i, v) PROVE Bindings'
    BY <1>1, <1>a, NoToken DEF SetParam, flash, locals, history
  <1>2. ASSUME NEW i \in Params, NEW v \in Values, Calibrate(i, v) PROVE Bindings'
    BY <1>2, <1>a, NoToken DEF Calibrate, flash, locals, history
  <1>3. ASSUME LoadDefault PROVE Bindings'
    BY <1>3, <1>a, NoToken DEF LoadDefault, flash, locals, history
  <1>4. ASSUME Load PROVE Bindings'
    <2>1. /\ pc["comm"] \in {"idle", "load"}
          /\ \A t \in Tasks : IF t = "comm" THEN pc'[t] \in {"idle", "load"}
                             ELSE pc'[t] = pc[t] /\ at'[t] = at[t]
          /\ UNCHANGED <<tokens, copy, bound, clash>>
      BY <1>4 DEF Load, Goto, flash, history, Layout, TypeOK
    <2> QED
      BY <2>1, <1>a, NoToken DEF CopyPoints, TokenPoints
  <1>5. ASSUME NEW b \in Binds, StoreBind(b) PROVE Bindings'
    <2>1. /\ pc["radio"] = "idle" /\ pc' = [pc EXCEPT !["radio"] = "token"]
          /\ bound' = None /\ UNCHANGED <<tokens, at>>
      BY <1>5 DEF StoreBind, Goto, flash
    <2>2. ~clash' => ~clash
      BY <1>5 DEF StoreBind
    <2>3. Dense'
      BY <1>a, <2>1, <2>2 DEF Dense, SlotPoints, Layout, TypeOK
    <2> QED
      BY <2>1, <2>3 DEF Bindings, Binding, BindingKept
  <1>6. ASSUME NEW t \in Tasks, FindEmpty(t) PROVE Bindings'
    <2>1. /\ pc[t] = "token" /\ UNCHANGED <<tokens, copy, bound, clash>>
          /\ \/ copy[t] = None /\ pc' = [pc EXCEPT ![t] = "list"] /\ at' = at
             \/ /\ copy[t] # None /\ pc' = [pc EXCEPT ![t] = "tokenUnlock"]
                /\ at' = [at EXCEPT ![t] = FirstEmpty(tokens)]
      BY <1>6 DEF FindEmpty, Goto, flash, history
    <2>2. /\ FirstEmpty(tokens) \in Slots /\ tokens[FirstEmpty(tokens)] = Erased
          /\ \A r \in 1 .. FirstEmpty(tokens) - 1 : tokens[r] # Erased
      BY FindsSlot, FirstEmptyExists
    <2>3. ~clash => \A u \in Tasks \ {t} : pc'[u] \in {"idle", "load"}
      BY <1>a, <2>1, AtWork DEF SavePoints, TokenPoints, Layout, TypeOK
    <2>4. Dense'
      <3>1. ~clash => \A s \in Slots : /\ s < FirstEmpty(tokens) => tokens[s] # Erased
                                       /\ s > FirstEmpty(tokens) => tokens[s] = Erased
        BY <1>a, <2>2 DEF Dense, Slots
      <3>2. CASE pc' = [pc EXCEPT ![t] = "list"]
        BY <1>a, <2>1, <2>3, <3>2 DEF Dense, SlotPoints, Layout, TypeOK
      <3>3. CASE /\ pc' = [pc EXCEPT ![t] = "tokenUnlock"]
                 /\ at' = [at EXCEPT ![t] = FirstEmpty(tokens)]
        <4>1. pc'[t] = "tokenUnlock" /\ at'[t] = FirstEmpty(tokens)
          BY <3>3 DEF Layout, TypeOK
        <4> QED
          BY <1>a, <2>1, <2>2, <2>3, <3>1, <4>1 DEF Dense, SlotPoints
      <3> QED
        BY <2>1, <3>2, <3>3
    <2>5. bound # None => /\ t \in Savers /\ copy[t] = bound
                          /\ pc' = [pc EXCEPT ![t] = "tokenUnlock"]
      BY <1>a, <2>1 DEF Binding, CopyPoints, TokenPoints, Tasks
    <2>6. Binding'
      BY <1>a, <2>1, <2>5 DEF Binding, CopyPoints, TokenPoints, Layout, TypeOK, Tasks
    <2>7. BindingKept'
      BY <1>a, <2>1, <2>5 DEF BindingKept, TokenPoints, Layout, TypeOK, Tasks
    <2> QED
      BY <2>4, <2>6, <2>7 DEF Bindings
  <1>7. ASSUME NEW t \in Tasks, Unlock(t, "tokenUnlock", "key") PROVE Bindings'
    <2>1. /\ pc[t] = "tokenUnlock" /\ pc' = [pc EXCEPT ![t] = "key"]
          /\ UNCHANGED <<tokens, at, copy, bound, clash>>
      BY <1>7 DEF Unlock, Goto, history
    <2>2. Dense'
      BY <1>a, <2>1 DEF Dense, SlotPoints, Layout, TypeOK
    <2>3. Binding'
      BY <1>a, <2>1 DEF Binding, CopyPoints, TokenPoints, Layout, TypeOK, Tasks
    <2>4. BindingKept'
      BY <1>a, <2>1 DEF BindingKept, TokenPoints, Layout, TypeOK, Tasks
    <2> QED
      BY <2>2, <2>3, <2>4 DEF Bindings
  <1>8. ASSUME NEW t \in Tasks, Key(t) PROVE Bindings'
    <2> DEFINE keyed == [tokens EXCEPT ![at[t]] = IF @ = Erased THEN Torn ELSE @]
    <2>1. /\ pc[t] = "key" /\ clash' = clash /\ tokens' \in {tokens, keyed}
          /\ \/ /\ tokens' = keyed /\ pc' = [pc EXCEPT ![t] = "data"]
                /\ UNCHANGED <<at, copy, bound>>
             \/ pc'[t] \in {"idle", "list"} /\ bound' = None
          /\ \A u \in Tasks \ {t} : pc'[u] = pc[u]
      BY <1>8 DEF Key, EndToken, Leave, Goto, Layout, TypeOK
    <2>2. Dense'
      <3> SUFFICES ASSUME ~clash PROVE Dense'
        BY <2>1 DEF Dense
      <3>1. /\ at[t] \in Slots /\ tokens[at[t]] = Erased
            /\ \A s \in Slots : /\ s < at[t] => tokens[s] # Erased
                                /\ s > at[t] => tokens[s] = Erased
            /\ \A u \in Tasks \ {t} : pc[u] \in {"idle", "load"}
        BY <1>a, <2>1, SlotAtWork DEF SlotPoints
      <3>2. /\ \A s \in Slots : s # at[t] => tokens'[s] = tokens[s]
            /\ tokens' = keyed => tokens'[at[t]] = Torn
        BY <3>1, <2>1 DEF Layout, TypeOK
      <3>3. \A r, s \in Slots : r < s /\ tokens'[r] = Erased => tokens'[s] = Erased
        <4> HIDE DEF keyed
        <4> QED
          BY <3>1, <3>2 DEF Slots
      <3>4. CASE tokens' = keyed /\ pc' = [pc EXCEPT ![t] = "data"] /\ at' = at
        <4>1. pc'[t] = "data" /\ at'[t] = at[t] /\ tokens'[at[t]] = Torn
          BY <3>2, <3>4 DEF Layout, TypeOK
        <4> HIDE DEF keyed
        <4> QED
          BY <2>1, <3>1, <3>2, <3>3, <4>1 DEF Dense, SlotPoints, Slots
      <3>5. CASE pc'[t] \in {"idle", "list"}
        <4> HIDE DEF keyed
        <4> QED
          BY <2>1, <3>1, <3>3, <3>5 DEF Dense, SlotPoints
      <3> QED
        BY <2>1, <3>4, <3>5
    <2>3. bound' # None => /\ bound' = bound /\ bound # None /\ copy' = copy
                           /\ pc' = [pc EXCEPT ![t] = "data"]
      BY <2>1
    <2>4. bound # None => t \in Savers
      BY <1>a, <2>1 DEF Binding, Tasks
    <2>5. Binding'
      BY <1>a, <2>1, <2>3, <2>4 DEF Binding, CopyPoints, TokenPoints, Layout, TypeOK, Tasks, Savers
    <2>6. BindingKept'
      BY <1>a, <2>1, <2>3, <2>4 DEF Binding, BindingKept, CopyPoints, TokenPoints, Layout, TypeOK, Tasks
    <2> QED
      BY <2>2, <2>5, <2>6 DEF Bindings
  <1>9. ASSUME NEW t \in Tasks, Data(t) PROVE Bindings'
    <2> DEFINE written == [tokens EXCEPT ![at[t]] = Over(@, copy[t])]
    <2>1. /\ pc[t] = "data" /\ clash' = clash /\ tokens' \in {tokens, written}
          /\ \A u \in Tasks \ {t} : pc'[u] = pc[u]
          /\ pc'[t] = IF t = "radio" THEN "idle" ELSE "list"
          /\ \/ tokens' = written /\ bound' = IF t = "radio" /\ ~clash THEN copy[t] ELSE bound
             \/ bound' = None
      BY <1>9 DEF Data, EndToken, Leave, Goto, Layout, TypeOK
    <2>2. ~clash => /\ at[t] \in Slots /\ at[t] + 1 \in Slots /\ tokens[at[t]] = Torn
                    /\ \A s \in Slots : /\ s < at[t] => tokens[s] # Erased
                                        /\ s > at[t] => tokens[s] = Erased
                    /\ \A u \in Tasks \ {t} : pc[u] \in {"idle", "load"}
      BY <1>a, <2>1, SlotAtWork DEF SlotPoints
    <2>3. copy[t] \in Binds \cup {Torn, Mixed}
      BY <2>1 DEF Layout, TypeOK, Places, SlotPoints
    <2>4. ~clash => /\ \A s \in Slots : s # at[t] => tokens'[s] = tokens[s]
                    /\ tokens'[at[t]] # Erased
                    /\ tokens' = written => tokens'[at[t]] = copy[t]
      <3>1. ~clash => Over(tokens[at[t]], copy[t]) = copy[t] /\ copy[t] # Erased
        BY <2>2, <2>3 DEF Over
      <3>2. ~clash => /\ written[at[t]] = copy[t]
                      /\ \A s \in Slots : s # at[t] => written[s] = tokens[s]
        BY <2>2, <3>1 DEF Layout, TypeOK
      <3> HIDE DEF written
      <3> QED
        BY <2>1, <2>2, <3>1, <3>2
    <2> HIDE DEF written
    <2>5. Dense'
      <3>1. ~clash => \A r, s \in Slots : r < s /\ tokens'[r] = Erased => tokens'[s] = Erased
        BY <2>2, <2>4 DEF Slots
      <3>2. ~clash => \A u \in Tasks : pc'[u] \notin SlotPoints
        BY <2>1, <2>2 DEF SlotPoints
      <3> QED
        BY <2>1, <3>1, <3>2 DEF Dense, SlotPoints
    <2>6. bound' # None => /\ ~clash /\ tokens' = written /\ bound' = copy[t]
      <3>1. CASE t = "radio" /\ ~clash
        BY <1>a, <2>1, <3>1 DEF Binding
      <3>2. CASE ~(t = "radio" /\ ~clash)
        BY <1>a, <2>1, <3>2 DEF Binding, CopyPoints, TokenPoints, Tasks
      <3> QED
        BY <3>1, <3>2
    <2>7. bound' # None => TokenGet(tokens') = bound'
      <3> SUFFICES ASSUME bound' # None PROVE TokenGet(tokens') = bound'
        OBVIOUS
      <3>1. /\ tokens'[at[t] + 1] = Erased /\ at[t] + 1 \in Slots /\ at[t] \in Slots
            /\ \A r \in 1 .. at[t] : tokens'[r] # Erased
        BY <2>2, <2>4, <2>6 DEF Slots
      <3> QED
        BY <2>4, <2>6, <3>1, TokenGetLast
    <2>8. Binding'
      <3>1. bound' # None => \A u \in Savers : pc'[u] \in {"idle", "load", "list"}
        BY <2>1, <2>2, <2>6 DEF Savers, Tasks
      <3>2. bound' # None => pc'["radio"] = "idle"
        BY <2>1, <2>2, <2>6 DEF Layout, Places, TokenPoints, Tasks
      <3> QED
        BY <2>1, <2>6, <3>1, <3>2 DEF Binding, CopyPoints, TokenPoints
    <2> QED
      BY <2>5, <2>7, <2>8 DEF Bindings, BindingKept
  <1>10. ASSUME NEW t \in Savers, StartSave(t) PROVE Bindings'
    <2> DEFINE other == \E u \in Savers \ {t} : Saving(u)
    <2>1. /\ pc[t] = "idle" /\ pc' = [pc EXCEPT ![t] = "eraseUnlock"] /\ t \in Tasks
          /\ copy' = [copy EXCEPT ![t] = TokenGet(tokens)]
          /\ UNCHANGED <<tokens, at>>
          /\ clash' = (clash \/ other)
          /\ bound' = IF other THEN None ELSE bound
      BY <1>10 DEF StartSave, Goto, flash, OneInstance, Tasks
    <2>2. Dense'
      <3>1. ~clash' => ~clash
        BY <2>1
      <3> QED
        BY <1>a, <2>1, <3>1 DEF Dense, SlotPoints, Layout, TypeOK
    <2>3. bound' # None => /\ bound' = bound /\ bound # None /\ pc["radio"] = "idle" /\ ~clash'
                           /\ \A u \in Savers : pc[u] \notin SavePoints
      BY <1>a, <2>1 DEF Binding, Saving, SavePoints, TokenPoints
    <2>4. bound' # None => TokenGet(tokens) = bound
      BY <1>a, <2>3 DEF BindingKept, SavePoints
    <2>5. bound' # None => \A u \in Savers \ {t} : pc'[u] \notin CopyPoints
      BY <2>1, <2>3 DEF CopyPoints, SavePoints, Layout, TypeOK, Tasks
    <2>6. Binding'
      BY <2>1, <2>3, <2>4, <2>5 DEF Binding, Layout, TypeOK, Tasks, Savers
    <2> QED
      BY <2>1, <2>2, <2>3, <2>4, <2>6 DEF Bindings, BindingKept
  <1>11. ASSUME NEW t \in Savers, Unlock(t, "eraseUnlock", "erase") PROVE Bindings'
    <2>1. /\ pc[t] = "eraseUnlock" /\ pc' = [pc EXCEPT ![t] = "erase"]
          /\ UNCHANGED <<tokens, at, copy, bound, clash>>
      BY <1>11 DEF Unlock, Goto, history
    <2> QED
      BY <2>1, <1>a, NoToken DEF Layout, TypeOK
  <1>12. ASSUME NEW t \in Savers, Erase(t) PROVE Bindings'
    <2>1. pc[t] = "erase" /\ t \in Tasks
      BY <1>12 DEF Erase, Tasks
    <2>2. /\ ~clash => unlocked
          /\ ~clash => \A u \in Tasks \ {t} : pc[u] \in {"idle", "load"}
      BY <1>a, <2>1, AtWork DEF SavePoints
    <2>3. CASE /\ tokens' = Unused /\ pc' = [pc EXCEPT ![t] = "token"]
               /\ clash' = \E u \in Savers \ {t} : Saving(u)
               /\ UNCHANGED <<at, copy, bound>>
      <3>1. pc'[t] = "token" /\ (~clash' => \A u \in Tasks \ {t} : pc'[u] \notin SavePoints)
        BY <1>a, <2>1, <2>3 DEF Alone, SavePoints, TokenPoints, Layout, TypeOK
      <3>2. Dense'
        BY <2>3, <3>1 DEF Dense, Unused, SlotPoints, SavePoints, TokenPoints
      <3>3. bound # None => /\ pc["radio"] = "idle" /\ copy[t] = bound
                            /\ \A u \in Savers \ {t} : pc[u] \in {"idle", "load"}
        BY <1>a, <2>1, <2>2 DEF Binding, CopyPoints, Tasks
      <3>4. bound # None => ~clash'
        BY <2>3, <3>3 DEF Saving, SavePoints, TokenPoints
      <3>5. bound # None => /\ pc'["radio"] = "idle"
                            /\ \A u \in Savers \ {t} : pc'[u] \in {"idle", "load"}
        BY <2>3, <3>3 DEF Layout, TypeOK, Tasks, Savers
      <3>6. Binding'
        BY <2>3, <3>3, <3>4, <3>5 DEF Binding, CopyPoints, TokenPoints
      <3>7. BindingKept'
        BY <2>3, <3>1, <3>3 DEF BindingKept, TokenPoints
      <3> QED
        BY <3>2, <3>6, <3>7 DEF Bindings
    <2>4. CASE ~unlocked /\ clash' = clash /\ bound' = bound
      BY <1>a, <2>2, <2>4 DEF Bindings, Dense, Binding, BindingKept
    <2>5. CASE /\ clash' = clash /\ Leave(t)
               /\ \/ tokens' = Unused /\ bound' = None
                  \/ UNCHANGED <<tokens, bound>>
      <3>1. /\ pc' = [pc EXCEPT ![t] = "idle"] /\ at' = [at EXCEPT ![t] = 1]
            /\ copy' = [copy EXCEPT ![t] = None]
        BY <2>5 DEF Leave, Goto
      <3>2. CASE tokens' = Unused /\ bound' = None
        <4>1. ~clash => \A u \in Tasks : pc'[u] \in {"idle", "load"}
          BY <2>2, <3>1 DEF Layout, TypeOK
        <4>2. Dense'
          BY <2>5, <3>2, <4>1 DEF Dense, Unused, SlotPoints
        <4> QED
          BY <3>2, <4>2 DEF Bindings, Binding, BindingKept
      <3>3. CASE UNCHANGED <<tokens, bound>>
        <4>1. Dense'
          BY <1>a, <2>5, <3>1, <3>3 DEF Dense, SlotPoints, Layout, TypeOK
        <4>2. Binding'
          BY <1>a, <2>5, <3>1, <3>3 DEF Binding, CopyPoints, TokenPoints, Layout, TypeOK, Tasks
        <4>3. BindingKept'
          BY <1>a, <2>1, <3>1, <3>3 DEF BindingKept, TokenPoints, Layout, TypeOK, Tasks
        <4> QED
          BY <4>1, <4>2, <4>3 DEF Bindings
      <3> QED
        BY <2>5, <3>2, <3>3
    <2> QED
      BY <1>12, <2>3, <2>4, <2>5 DEF Erase, EraseSector, Goto, history
  <1>13. ASSUME NEW t \in Savers, MakeList(t) PROVE Bindings'
    <2>1. /\ pc[t] = "list" /\ pc' = [pc EXCEPT ![t] = "unlock"] /\ t # "radio"
          /\ copy' = [copy EXCEPT ![t] = None] /\ UNCHANGED <<tokens, at, bound, clash>>
      BY <1>13 DEF MakeList, Goto, flash, Savers
    <2> QED
      BY <2>1, <1>a, NoToken DEF Layout, TypeOK, CopyPoints, TokenPoints
  <1>14. ASSUME NEW t \in Savers, Unlock(t, "unlock", "name") PROVE Bindings'
    <2>1. /\ pc[t] = "unlock" /\ pc' = [pc EXCEPT ![t] = "name"] /\ t # "radio"
          /\ UNCHANGED <<tokens, at, copy, bound, clash>>
      BY <1>14 DEF Unlock, Goto, history, Savers
    <2> QED
      BY <2>1, <1>a, NoToken DEF Layout, TypeOK, CopyPoints, TokenPoints
  <1>15. ASSUME NEW t \in Savers, Name(t) \/ Value(t) PROVE Bindings'
    <2>1. /\ pc[t] \in {"name", "value"} /\ t # "radio"
          /\ pc'[t] \in {"name", "value", "idle"}
          /\ \A u \in Tasks \ {t} : pc'[u] = pc[u] /\ at'[u] = at[u] /\ copy'[u] = copy[u]
          /\ UNCHANGED <<tokens, bound, clash>>
      BY <1>15 DEF Name, Value, Fail, Leave, Goto, Savers, Tasks, Layout, TypeOK
    <2> QED
      BY <2>1, <1>a, NoToken DEF CopyPoints, TokenPoints
  <1>16. CASE Reboot
    <2>1. /\ \A t \in Tasks : pc'[t] = "idle"
          /\ bound' = IF bound = TokenGet(tokens) THEN bound ELSE None
          /\ UNCHANGED <<tokens, clash>>
      BY <1>16 DEF Reboot
    <2>2. Dense'
      BY <1>a, <2>1 DEF Dense, SlotPoints
    <2> QED
      BY <1>a, <2>1, <2>2 DEF Bindings, Binding, BindingKept, CopyPoints, TokenPoints, Tasks
  <1>17. CASE UNCHANGED vars
    BY <1>17, <1>a, NoToken DEF vars, flash, locals, history
  <1> QED
    BY <1>1, <1>2, <1>3, <1>4, <1>5, <1>6, <1>7, <1>8, <1>9, <1>10, <1>11, <1>12, <1>13,
       <1>14, <1>15, <1>16, <1>17 DEF Next, TokenStep, SaverStep

-------------------------------------------------------------------------------
(* The theorems *)

\* What the flash holds, and where every task is in writing it, for any number of
\* saves, bindings, flash errors and power failures: the invariant the others follow from.
THEOREM Inductive == Spec => []ConfigInv
  <1>1. Init => ConfigInv
    BY LayoutInit, WorkInit, BindingsInit DEF ConfigInv
  <1>2. ConfigInv /\ [Next]_vars => ConfigInv'
    BY LayoutStep, WorkStep, BindingsStep DEF ConfigInv
  <1> QED
    BY <1>1, <1>2, PTL DEF Spec

\* No step takes a value out of its type: the search for an empty slot in the
\* token area (configTokenFindEmpty) always has one to find.
THEOREM ConfigTypes == Spec => []TypeOK
  <1>1. ConfigInv => TypeOK
    BY DEF ConfigInv, Layout
  <1> QED
    BY <1>1, Inductive, PTL

\* When configFlashWrite() has returned 1 and no other task wrote in the middle of
\* it, the flash holds every value of the list.
THEOREM SavesAreDurable == Spec => []SaveDurable
  <1>1. ConfigInv => SaveDurable
    BY DEF ConfigInv, Work
  <1> QED
    BY <1>1, Inductive, PTL

\* A binding of the radio survives every later save.
THEOREM BindingsAreKept == Spec => []BindingKept
  <1>1. ConfigInv => BindingKept
    BY DEF ConfigInv, Bindings
  <1> QED
    BY <1>1, Inductive, PTL

LEMMA OnlyReboot == TypeOK /\ Next /\ count'.boots # count.boots => Reboot
  <1> SUFFICES ASSUME TypeOK, Next, ~Reboot PROVE count'.boots = count.boots
    OBVIOUS
  <1>1. Fault \/ count' = count => count'.boots = count.boots
    BY DEF Fault, TypeOK
  <1>2. ASSUME NEW i \in Params, NEW v, SetParam(i, v) \/ Calibrate(i, v) PROVE count'.boots = count.boots
    BY <1>2 DEF SetParam, Calibrate, TypeOK
  <1>3. ASSUME LoadDefault \/ Load PROVE count'.boots = count.boots
    BY <1>3 DEF LoadDefault, Load
  <1>4. ASSUME NEW b \in Binds, StoreBind(b) PROVE count'.boots = count.boots
    BY <1>4 DEF StoreBind, TypeOK
  <1>5. ASSUME NEW t \in Tasks, TokenStep(t) PROVE count'.boots = count.boots
    BY <1>1, <1>5 DEF TokenStep, FindEmpty, Unlock, Key, Data
  <1>6. ASSUME NEW t \in Savers, StartSave(t) PROVE count'.boots = count.boots
    BY <1>6 DEF StartSave, TypeOK
  <1>7. ASSUME NEW t \in Savers, SaverStep(t), ~StartSave(t) PROVE count'.boots = count.boots
    BY <1>1, <1>7 DEF SaverStep, Unlock, Erase, MakeList, Name, Value, Fail
  <1> QED
    BY <1>2, <1>3, <1>4, <1>5, <1>6, <1>7 DEF Next

\* Whenever the power fails, configFlashRead() finds the first values of one save.
THEOREM BootFindsOneSave == Spec => BootsOneSave
  <1> DEFINE OneSave == \E k \in 0 .. NumParams :
                          /\ k > 0 => intended # None
                          /\ \A i \in Params : p'[i] = IF i <= k THEN intended[i] ELSE Default
             Boots == count'.boots # count.boots /\ ~clash => OneSave
  <1>1. ConfigInv /\ [Next]_vars => [Boots]_vars
    <2> SUFFICES ASSUME ConfigInv, Next, count'.boots # count.boots, ~clash PROVE OneSave
      OBVIOUS
    <2>1. Reboot
      BY OnlyReboot DEF ConfigInv, Layout
    <2>2. PICK k \in 0 .. NumParams : Prefix(k)
      BY DEF ConfigInv, Work, Records
    <2>3. \A i \in Params : p'[i] = IF i <= k THEN intended[i] ELSE Default
      <3> SUFFICES ASSUME NEW i \in Params PROVE p'[i] = IF i <= k THEN intended[i] ELSE Default
        OBVIOUS
      <3>1. p'[i] \in IF \E j \in 1 .. i : rec[j] = Erased THEN {Default}
                     ELSE Accept(Default, rec[i])
        BY <2>1 DEF Reboot
      <3>2. CASE i <= k
        <4>1. \A j \in 1 .. i : j \in Params /\ j <= k /\ k > 0
          BY <2>2, <3>2, Constants DEF Params
        <4>2. i \in 1 .. i
          BY DEF Params
        <4>3. intended \in Lists /\ \A j \in 1 .. i : rec[j] = intended[j]
          BY <2>2, <4>1, <4>2 DEF Prefix, ConfigInv, Layout, TypeOK
        <4>4. \A j \in 1 .. i : rec[j] \in Accepted
          BY <4>1, <4>3 DEF Lists
        <4>5. p'[i] \in Accept(Default, rec[i])
          BY <3>1, <4>4, Constants
        <4>6. Accept(Default, rec[i]) = {rec[i]}
          BY <4>2, <4>4, Constants DEF Accept
        <4> QED
          BY <3>2, <4>2, <4>3, <4>5, <4>6
      <3>3. CASE i = k + 1
        <4>1. rec[i] \in {Erased, NaN} /\ i \in 1 .. i
          BY <2>2, <3>3 DEF Prefix, Params
        <4>2. Accept(Default, NaN) = {Default}
          BY Constants DEF Accept
        <4> QED
          BY <3>1, <3>3, <4>1, <4>2
      <3>4. CASE i > k + 1
        <4>1. rec[i] = Erased /\ i \in 1 .. i
          BY <2>2, <3>4 DEF Prefix, Params
        <4> QED
          BY <3>1, <3>4, <4>1
      <3> QED
        BY <3>2, <3>3, <3>4 DEF Params
    <2> QED
      BY <2>2, <2>3 DEF Prefix
  <1>2. Spec => [][Boots]_vars
    BY <1>1, Inductive, PTL DEF Spec
  <1> QED
    BY <1>2 DEF BootsOneSave
===============================================================================
