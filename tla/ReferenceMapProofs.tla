------------------------- MODULE ReferenceMapProofs -------------------------
(***************************************************************************)
(* Proofs about ReferenceMap.                                              *)
(*                                                                         *)
(* Two inductive invariants.  TInv is about the table: what is in it, and  *)
(* in the hands of the thread that rebuilds it, is what the map has.  CInv *)
(* is about the calls that go on without the lock, in chains that may have *)
(* left the table: what they still find there they have seen in the map.   *)
(***************************************************************************)
EXTENDS ReferenceMap, SequenceTheorems, FiniteSetTheorems, WellFoundedInduction, TLAPS

(***************************************************************************)
(* References, chains and tables.                                          *)
(***************************************************************************)

Refs == [e : Nat, gen : Nat]

KeyOf(r) == entries[r.e].key

\* A reference that was made, to an entry that was made.
Made(r) == r \in Refs /\ r.e \in DOMAIN entries /\ r.gen <= entries[r.e].gen

\* A chain of references, no two to the same entry.
IsChain(chain) ==
    /\ chain \in Seq(Refs)
    /\ \A n \in DOMAIN chain : Made(chain[n])
    /\ \A m, n \in DOMAIN chain : chain[m].e = chain[n].e => m = n

\* What the references that were not cleared refer to is the map's.
Current(chain) ==
    \A n \in DOMAIN chain : Alive(chain[n]) => map[KeyOf(chain[n])] = chain[n].e

\* The chain has a reference to the entry that was not released.
Holds(chain, e) == \E n \in DOMAIN chain : chain[n].e = e /\ chain[n] \notin released

HasSize(t) == Size(t) \in Nat \ {0} /\ DOMAIN t = 0 .. Size(t) - 1

\* Every reference is in the chain of its key.
IsTable(t) ==
    /\ HasSize(t)
    /\ \A i \in DOMAIN t :
          IsChain(t[i]) /\ \A n \in DOMAIN t[i] : getIndex(KeyOf(t[i][n]), t) = i

CurrentTable(t) == \A i \in DOMAIN t : Current(t[i])

------------------------------------------------------------------------------
(* The inductive invariant of the table.                                   *)

Values == (Threads \X (0 .. MaxCalls)) \cup {None}

Entry == [key : Keys, value : Values, collected : BOOLEAN, gen : Nat \ {0}]

EntriesOK ==
    /\ entries \in Seq(Entry)
    /\ map \in [Keys -> 0 .. Len(entries)]
    /\ \A k \in Keys : map[k] # 0 => entries[map[k]].key = k /\ ~entries[map[k]].collected
    /\ \A r \in released : Made(r)

\* What waits for a purge was cleared.
DeadQueued ==
    /\ \A r \in queue \cup pending : Made(r) /\ ~Alive(r)
    /\ \A p \in Threads : \A r \in call[p].purge : Made(r) /\ ~Alive(r)

Fields ==
    {"pc", "left", "op", "key", "value", "expect", "result", "seen", "excused", "purge",
     "after", "resizing", "built", "i", "chain", "fresh", "frozen", "yielded"}

\* Outside of the rebuilding, reading and iterating there is no chain at hand.
Resting == {"idle", "check", "poll", "lock", "task", "head", "table"}

CallOK(p) ==
    LET c == call[p] IN
    /\ DOMAIN c = Fields
    /\ c.left \in 0 .. MaxCalls /\ c.value \in Values /\ c.resizing \in BOOLEAN
    /\ c.pc # "idle" /\ c.op \notin Keyless => c.key \in Keys
    /\ c.pc \in Resting => c.i = 0 /\ c.chain = <<>>

CallsOK == DOMAIN call = Threads /\ \A p \in Threads : CallOK(p)

LocksOK ==
    /\ lock \in Threads \cup {None}
    /\ \A p \in Threads : lock = p <=> call[p].pc \in {"rebuild", "move"}

\* The table has the map, unless a rebuild in place is under way.
HoldsMap ==
    \A k \in Keys : map[k] # 0 => Holds(table[getIndex(k, table)], map[k])

TableOK ==
    /\ IsTable(table) /\ CurrentTable(table)
    /\ (\A p \in Threads : lock = p => call[p].resizing) => HoldsMap

\* The lock holder takes the chains of table u one by one: what the map has is in
\* a chain still to come, in the one at hand or in the table t that is built.
Working(c, t, u) ==
    /\ IsTable(t) /\ CurrentTable(t) /\ IsChain(c.chain) /\ Current(c.chain)
    /\ c.i \in 0 .. Size(u)
    /\ \A n \in DOMAIN c.chain : getIndex(KeyOf(c.chain[n]), u) = c.i - 1
    /\ \A i \in DOMAIN t : \A m \in DOMAIN t[i], n \in DOMAIN c.chain : t[i][m].e # c.chain[n].e
    /\ c.resizing => \A i \in DOMAIN t : \A m \in DOMAIN t[i] : getIndex(KeyOf(t[i][m]), u) < c.i
    /\ \A k \in Keys : map[k] # 0 =>
          \/ getIndex(k, u) >= c.i /\ Holds(u[getIndex(k, u)], map[k])
          \/ Holds(t[getIndex(k, t)], map[k])
          \/ Holds(c.chain, map[k])
    /\ c.pc = "move" => c.chain # <<>> /\ Head(c.chain) \notin released

Rebuilding(p) == Working(call[p], Target(call[p]), table)

TInv ==
    /\ EntriesOK /\ DeadQueued /\ CallsOK /\ LocksOK /\ TableOK
    /\ \A p \in Threads : lock = p => Rebuilding(p)

LEMMA IdleFields ==
    /\ DOMAIN Idle = Fields
    /\ Idle.pc = "idle" /\ Idle.left = MaxCalls /\ Idle.op = "purge" /\ Idle.value = None
    /\ Idle.result = None /\ Idle.seen = {} /\ Idle.purge = {} /\ Idle.resizing = FALSE
    /\ Idle.built = <<>> /\ Idle.i = 0 /\ Idle.chain = <<>> /\ Idle.yielded = <<>>
    /\ Idle.key = None /\ Idle.expect = None /\ Idle.fresh = TRUE /\ Idle.frozen = <<>>
    /\ Idle.excused = FALSE /\ Idle.after = 0
BY DEF Idle, Fields

LEMMA DoneFields ==
    ASSUME NEW c, NEW x, NEW d, d = Done(c, x)
    PROVE  /\ DOMAIN d = Fields
           /\ d.pc = "idle" /\ d.left = c.left /\ d.value = None
           /\ d.purge = {} /\ d.built = <<>> /\ d.i = 0 /\ d.chain = <<>> /\ d.yielded = <<>>
BY IdleFields DEF Done, Fields

LEMMA DoneResizing == ASSUME NEW c, NEW x PROVE Done(c, x).resizing = FALSE
BY IdleFields DEF Done

LEMMA DoneAsks ==
    ASSUME NEW c, NEW x, NEW d, d = Done(c, x)
    PROVE  /\ Asks(c.op) => /\ d.op = c.op /\ d.expect = c.expect /\ d.result = x
                            /\ d.seen = c.seen /\ d.excused = c.excused
           /\ ~Asks(c.op) => d.op = "purge" /\ d.result = None
BY IdleFields DEF Done, Fields

LEMMA BeginFields ==
    ASSUME CallsOK, NEW p \in Threads, Begin(p)
    PROVE  /\ call[p].pc = "idle" /\ DOMAIN call' = Threads
           /\ \A q \in Threads \ {p} : call'[q] = call[q]
           /\ LET d == call'[p] IN
              /\ DOMAIN d = Fields
              /\ d.pc \in {"check", "table", "poll"} /\ d.left = call[p].left - 1 /\ d.left >= 0
              /\ d.op \in Operations
              /\ d.op \notin Keyless => d.key \in Keys
              /\ d.value \in {None, FreshValue(p)}
              /\ d.result = None /\ d.purge = {} /\ d.resizing = FALSE /\ d.built = <<>> /\ d.i = 0
              /\ d.chain = <<>> /\ d.yielded = <<>>
              /\ Asks(d.op) => d.seen = {ValueOf(map, entries, d.key)}
<1>1. call[p].pc = "idle" /\ call[p].left > 0 /\ DOMAIN call = Threads /\ call[p].left \in 0 .. MaxCalls
  BY DEF Begin, CallsOK, CallOK
<1>2. PICK op \in Calls[p] : \E key \in IF op \in Keyless THEN {None} ELSE Keys :
       \E expect \in Expected(op, key) :
          call' = [call EXCEPT ![p] =
                     [Idle EXCEPT
                        !.left = call[p].left - 1, !.op = op,
                        !.pc = CASE op \in {"remove", "clear"} -> "check"
                                 [] op = "iterate" -> "table"
                                 [] OTHER -> "poll",
                        !.key = key, !.expect = expect,
                        !.value = IF op \in {"put", "putIfAbsent", "replace"}
                                  THEN FreshValue(p) ELSE None,
                        !.seen = IF Asks(op) THEN {ValueOf(map, entries, key)} ELSE {}]]
  BY DEF Begin
<1>3. PICK key \in IF op \in Keyless THEN {None} ELSE Keys : \E expect \in Expected(op, key) :
          call' = [call EXCEPT ![p] =
                     [Idle EXCEPT
                        !.left = call[p].left - 1, !.op = op,
                        !.pc = CASE op \in {"remove", "clear"} -> "check"
                                 [] op = "iterate" -> "table"
                                 [] OTHER -> "poll",
                        !.key = key, !.expect = expect,
                        !.value = IF op \in {"put", "putIfAbsent", "replace"}
                                  THEN FreshValue(p) ELSE None,
                        !.seen = IF Asks(op) THEN {ValueOf(map, entries, key)} ELSE {}]]
  BY <1>2
<1>4. PICK pc \in {"check", "table", "poll"} :
         pc = CASE op \in {"remove", "clear"} -> "check"
                [] op = "iterate" -> "table"
                [] OTHER -> "poll"
  OBVIOUS
<1>5. PICK value \in {None, FreshValue(p)} :
         value = IF op \in {"put", "putIfAbsent", "replace"} THEN FreshValue(p) ELSE None
  OBVIOUS
<1>6. PICK expect \in Expected(op, key) :
         call' = [call EXCEPT ![p] =
                    [Idle EXCEPT !.left = call[p].left - 1, !.op = op, !.pc = pc,
                       !.key = key, !.expect = expect, !.value = value,
                       !.seen = IF Asks(op) THEN {ValueOf(map, entries, key)} ELSE {}]]
  BY <1>3, <1>4, <1>5
<1>7. op \in Operations /\ (op \notin Keyless => key \in Keys)
  BY CallAssumption
<1> QED
  BY <1>1, <1>6, <1>7, IdleFields DEF Fields

------------------------------------------------------------------------------
(* Places in a table.                                                      *)

LEMMA IndexIn ==
    ASSUME NEW t, HasSize(t), NEW k \in Keys
    PROVE  getIndex(k, t) \in DOMAIN t
BY KeyAssumption DEF HasSize, getIndex

LEMMA SameIndex ==
    ASSUME NEW t, NEW u, DOMAIN t = DOMAIN u
    PROVE  Size(t) = Size(u) /\ \A k : getIndex(k, t) = getIndex(k, u)
BY DEF Size, getIndex

LEMMA EmptyChain == IsChain(<<>>) /\ Current(<<>>) /\ \A e : ~Holds(<<>>, e)
BY DEF IsChain, Current, Holds

LEMMA EmptyTable ==
    ASSUME NEW size \in Nat \ {0}
    PROVE  LET t == createReferenceArray(size) IN
           /\ IsTable(t) /\ CurrentTable(t) /\ Size(t) = size
           /\ \A i \in DOMAIN t : t[i] = <<>>
<1>. DEFINE t == createReferenceArray(size)
<1>1. DOMAIN t = 0 .. size - 1 /\ \A i \in DOMAIN t : t[i] = <<>>
  BY DEF createReferenceArray
<1>2. Cardinality(0 .. size - 1) = size
  BY FS_Interval
<1>3. HasSize(t)
  BY <1>1, <1>2 DEF HasSize, Size
<1>. HIDE DEF t
<1>4. IsTable(t) /\ CurrentTable(t)
  BY <1>1, <1>3, EmptyChain DEF IsTable, CurrentTable
<1> QED
  BY <1>1, <1>2, <1>4 DEF Size, t

\* A chain without its first reference.
LEMMA TailChain ==
    ASSUME NEW chain, IsChain(chain), chain # <<>>
    PROVE  /\ chain[1] = Head(chain) /\ 1 \in DOMAIN chain
           /\ IsChain(Tail(chain))
           /\ \A n \in DOMAIN Tail(chain) :
                 \E m \in DOMAIN chain : m # 1 /\ Tail(chain)[n] = chain[m]
           /\ \A m \in DOMAIN chain : m # 1 =>
                 \E n \in DOMAIN Tail(chain) : Tail(chain)[n] = chain[m]
<1>1. /\ chain \in Seq(Refs) /\ Len(chain) \in Nat /\ Len(chain) # 0
      /\ Tail(chain) \in Seq(Refs) /\ Len(Tail(chain)) = Len(chain) - 1
      /\ \A n \in 1 .. Len(Tail(chain)) : Tail(chain)[n] = chain[n + 1]
  BY HeadTailProperties, EmptySeq, LenProperties DEF IsChain
<1>2. DOMAIN chain = 1 .. Len(chain) /\ DOMAIN Tail(chain) = 1 .. Len(chain) - 1
  BY <1>1, LenProperties
<1>3. chain[1] = Head(chain)
  BY <1>1
<1>4. \A n \in DOMAIN Tail(chain) : n + 1 \in DOMAIN chain /\ n + 1 # 1 /\ Tail(chain)[n] = chain[n + 1]
  BY <1>1, <1>2
<1>5. ASSUME NEW m \in DOMAIN chain, m # 1
      PROVE  m - 1 \in DOMAIN Tail(chain) /\ Tail(chain)[m - 1] = chain[m]
  BY <1>1, <1>2, <1>5
<1>6. \A n \in DOMAIN Tail(chain) : Made(Tail(chain)[n])
  BY <1>4 DEF IsChain
<1>7. ASSUME NEW m \in DOMAIN Tail(chain), NEW n \in DOMAIN Tail(chain),
             Tail(chain)[m].e = Tail(chain)[n].e
      PROVE  m = n
  <2>1. m + 1 = n + 1
    BY <1>4, <1>7 DEF IsChain
  <2> QED
    BY <1>1, <1>2, <2>1
<1>8. IsChain(Tail(chain))
  BY <1>1, <1>6, <1>7 DEF IsChain
<1> QED
  BY <1>1, <1>2, <1>3, <1>4, <1>5, <1>8

\* A chain with a new reference in front.
LEMMA PushChain ==
    ASSUME NEW chain \in Seq(Refs), NEW r \in Refs
    PROVE  LET new == <<r>> \o chain IN
           /\ new \in Seq(Refs) /\ 1 \in DOMAIN new /\ new[1] = r
           /\ \A n \in DOMAIN chain : n + 1 \in DOMAIN new /\ new[n + 1] = chain[n]
           /\ \A m \in DOMAIN new : m # 1 => m - 1 \in DOMAIN chain /\ new[m] = chain[m - 1]
           /\ DOMAIN new \subseteq Nat /\ DOMAIN chain \subseteq Nat
<1>. DEFINE new == <<r>> \o chain
<1>1. /\ <<r>> \in Seq(Refs) /\ Len(<<r>>) = 1 /\ <<r>>[1] = r /\ Len(chain) \in Nat
      /\ DOMAIN chain = 1 .. Len(chain)
  BY LenProperties
<1>2. /\ new \in Seq(Refs) /\ Len(new) = 1 + Len(chain)
      /\ \A i \in 1 .. 1 + Len(chain) : new[i] = IF i <= 1 THEN <<r>>[i] ELSE chain[i - 1]
  BY <1>1, ConcatProperties
<1>3. DOMAIN new = 1 .. 1 + Len(chain)
  BY <1>2, LenProperties
<1>. HIDE DEF new
<1>4. 1 \in DOMAIN new /\ new[1] = r
  BY <1>1, <1>2, <1>3
<1>5. ASSUME NEW n \in DOMAIN chain PROVE n + 1 \in DOMAIN new /\ new[n + 1] = chain[n]
  BY <1>1, <1>2, <1>3
<1>6. ASSUME NEW m \in DOMAIN new, m # 1 PROVE m - 1 \in DOMAIN chain /\ new[m] = chain[m - 1]
  BY <1>1, <1>2, <1>3, <1>6
<1> QED
  BY <1>1, <1>2, <1>3, <1>4, <1>5, <1>6 DEF new

------------------------------------------------------------------------------
(* Entries and references outlive the steps.                               *)

\* Entries keep their keys, what was cleared stays so.
Grows ==
    /\ \A e \in DOMAIN entries :
          /\ e \in DOMAIN entries' /\ entries'[e].key = entries[e].key
          /\ entries'[e].gen \in Nat /\ entries[e].gen <= entries'[e].gen
          /\ entries[e].collected => entries'[e].collected
    /\ released \subseteq released'

LEMMA MadeStays ==
    ASSUME EntriesOK, Grows, NEW r, Made(r)
    PROVE  Made(r)' /\ KeyOf(r)' = KeyOf(r) /\ KeyOf(r) \in Keys /\ (Alive(r)' => Alive(r))
<1>1. entries[r.e] \in Entry
  BY DEF EntriesOK, Made
<1> QED
  BY <1>1 DEF Grows, Made, KeyOf, Alive, Refs, Entry

LEMMA ChainStays ==
    ASSUME EntriesOK, Grows, NEW chain, IsChain(chain)
    PROVE  IsChain(chain)'
BY MadeStays DEF IsChain

LEMMA TableStays ==
    ASSUME EntriesOK, Grows, NEW t, IsTable(t)
    PROVE  IsTable(t)'
<1>1. HasSize(t)' <=> HasSize(t)
  BY DEF HasSize, Size
<1>2. ASSUME NEW i \in DOMAIN t PROVE IsChain(t[i])'
  <2>1. PICK chain : chain = t[i]
    OBVIOUS
  <2> QED
    BY <2>1, ChainStays DEF IsTable
<1>3. ASSUME NEW i \in DOMAIN t, NEW n \in DOMAIN t[i] PROVE getIndex(KeyOf(t[i][n]), t)' = i
  <2>1. PICK r : r = t[i][n]
    OBVIOUS
  <2>2. Made(r)
    BY <2>1 DEF IsTable, IsChain
  <2>3. KeyOf(r)' = KeyOf(r)
    BY <2>2, MadeStays
  <2> QED
    BY <2>1, <2>3 DEF IsTable, getIndex, Size, KeyOf
<1> QED
  BY <1>1, <1>2, <1>3 DEF IsTable

\* The map keeps the entries that live.
MapFollows ==
    \A r : Made(r) /\ Alive(r)' /\ map[KeyOf(r)] = r.e => map'[KeyOf(r)] = r.e

LEMMA CurrentStays ==
    ASSUME EntriesOK, Grows, MapFollows, NEW chain, IsChain(chain), Current(chain)
    PROVE  Current(chain)'
<1>. SUFFICES ASSUME NEW n \in DOMAIN chain, NEW r, r = chain[n], Alive(r)'
              PROVE  map'[KeyOf(r)'] = r.e
  BY DEF Current, Alive, KeyOf
<1>1. Made(r)
  BY DEF IsChain
<1>2. KeyOf(r)' = KeyOf(r) /\ Alive(r)
  BY <1>1, MadeStays
<1> QED
  BY <1>1, <1>2 DEF Current, MapFollows

LEMMA CurrentTableStays ==
    ASSUME EntriesOK, Grows, MapFollows, NEW t, IsTable(t), CurrentTable(t)
    PROVE  CurrentTable(t)'
<1>. SUFFICES ASSUME NEW i \in DOMAIN t, NEW chain, chain = t[i] PROVE Current(chain)'
  BY DEF CurrentTable
<1> QED
  BY CurrentStays DEF IsTable, CurrentTable

------------------------------------------------------------------------------
(* Steps that leave the table alone.                                       *)

\* What of a call has to do with restructuring.
SameTask(p) ==
    /\ call'[p].pc = call[p].pc /\ call'[p].purge = call[p].purge
    /\ call'[p].resizing = call[p].resizing /\ call'[p].built = call[p].built
    /\ call'[p].i = call[p].i /\ call'[p].chain = call[p].chain

\* The map only loses entries.
MapShrinks == \A k \in Keys : map'[k] # 0 => map'[k] = map[k]

\* No reference is released, no chain of the table changed.
Calm == Grows /\ MapFollows /\ MapShrinks /\ released' = released /\ table' = table

LEMMA HoldsStays ==
    ASSUME released' = released, MapShrinks, NEW k \in Keys, map'[k] # 0, NEW chain
    PROVE  map[k] # 0 /\ (Holds(chain, map[k]) => Holds(chain, map[k])')
BY DEF MapShrinks, Holds

LEMMA WorkingStays ==
    ASSUME EntriesOK, Grows, MapFollows, MapShrinks, released' = released,
           NEW c, NEW t, NEW u, Working(c, t, u)
    PROVE  Working(c, t, u)'
<1>1. /\ IsTable(t) /\ CurrentTable(t) /\ IsChain(c.chain) /\ Current(c.chain)
      /\ c.i \in 0 .. Size(u)
      /\ \A n \in DOMAIN c.chain : getIndex(KeyOf(c.chain[n]), u) = c.i - 1
      /\ \A i \in DOMAIN t : \A m \in DOMAIN t[i], n \in DOMAIN c.chain : t[i][m].e # c.chain[n].e
      /\ c.resizing => \A i \in DOMAIN t : \A m \in DOMAIN t[i] : getIndex(KeyOf(t[i][m]), u) < c.i
      /\ \A k \in Keys : map[k] # 0 =>
            \/ getIndex(k, u) >= c.i /\ Holds(u[getIndex(k, u)], map[k])
            \/ Holds(t[getIndex(k, t)], map[k])
            \/ Holds(c.chain, map[k])
      /\ c.pc = "move" => c.chain # <<>> /\ Head(c.chain) \notin released
  BY DEF Working
<1>2. IsTable(t)' /\ CurrentTable(t)'
  BY <1>1, TableStays, CurrentTableStays
<1>3. PICK chain : chain = c.chain
  OBVIOUS
<1>4. IsChain(chain)' /\ Current(chain)'
  BY <1>1, <1>3, ChainStays, CurrentStays
<1>5. ASSUME NEW r, Made(r) PROVE KeyOf(r)' = KeyOf(r)
  BY <1>5, MadeStays
<1>6. \A x, y : getIndex(x, y)' = getIndex(x, y) /\ Size(y)' = Size(y)
  BY DEF getIndex, Size
<1>7. ASSUME NEW n \in DOMAIN chain PROVE getIndex(KeyOf(chain[n]), u)' = c.i - 1
  <2>1. PICK r : r = chain[n]
    OBVIOUS
  <2>2. KeyOf(r)' = KeyOf(r) /\ getIndex(KeyOf(r), u) = c.i - 1
    BY <1>1, <1>3, <1>5, <2>1 DEF IsChain
  <2> QED
    BY <2>1, <2>2 DEF getIndex, Size, KeyOf
<1>8. ASSUME c.resizing, NEW i \in DOMAIN t, NEW m \in DOMAIN t[i]
      PROVE  getIndex(KeyOf(t[i][m]), u)' < c.i
  <2>1. PICK r : r = t[i][m]
    OBVIOUS
  <2>2. Made(r)
    BY <1>1, <2>1 DEF IsTable, IsChain
  <2>3. KeyOf(r)' = KeyOf(r) /\ getIndex(KeyOf(r), u) < c.i
    BY <1>1, <1>5, <1>8, <2>1, <2>2
  <2> QED
    BY <2>1, <2>3 DEF getIndex, Size, KeyOf
<1>9. ASSUME NEW k \in Keys, map'[k] # 0
      PROVE  \/ getIndex(k, u)' >= c.i /\ Holds(u[getIndex(k, u)], map[k])'
             \/ Holds(t[getIndex(k, t)], map[k])'
             \/ Holds(chain, map[k])'
  <2>1. PICK a : a = u[getIndex(k, u)]
    OBVIOUS
  <2>2. PICK b : b = t[getIndex(k, t)]
    OBVIOUS
  <2>3. map[k] # 0 /\ \A x : Holds(x, map[k]) => Holds(x, map[k])'
    BY <1>9, HoldsStays
  <2>4. getIndex(k, u)' = getIndex(k, u) /\ getIndex(k, t)' = getIndex(k, t)
    BY <1>6
  <2> QED
    BY <1>1, <1>3, <2>1, <2>2, <2>3, <2>4
<1> QED
  BY <1>1, <1>2, <1>3, <1>4, <1>6, <1>7, <1>8, <1>9 DEF Working

LEMMA RebuildingStays ==
    ASSUME EntriesOK, Calm, NEW p, SameTask(p), Rebuilding(p)
    PROVE  Rebuilding(p)'
<1>. PICK c : c = call[p]
  OBVIOUS
<1>. PICK d : d = call'[p]
  OBVIOUS
<1>. PICK t : t = Target(c)
  OBVIOUS
<1>. PICK u : u = table
  OBVIOUS
<1>1. Working(c, t, u)'
  BY WorkingStays DEF Rebuilding, Calm
<1>2. /\ d.pc = c.pc /\ d.resizing = c.resizing /\ d.built = c.built /\ d.i = c.i
      /\ d.chain = c.chain /\ table' = u
  BY DEF SameTask, Calm
<1>3. t = Target(d)'
  BY <1>2 DEF Target
<1>4. Working(d, t, u)'
  BY <1>1, <1>2 DEF Working
<1> QED
  BY <1>2, <1>3, <1>4 DEF Rebuilding

LEMMA TableOKStays ==
    ASSUME EntriesOK, Calm, TableOK, lock' = lock,
           \A p \in Threads : lock = p => call'[p].resizing = call[p].resizing
    PROVE  TableOK'
<1>. PICK t : t = table
  OBVIOUS
<1>1. t = table' /\ IsTable(t)' /\ CurrentTable(t)'
  BY TableStays, CurrentTableStays DEF Calm, TableOK
<1>2. ASSUME HoldsMap PROVE HoldsMap'
  <2>. SUFFICES ASSUME NEW k \in Keys, map'[k] # 0 PROVE Holds(table[getIndex(k, table)], map[k])'
    BY DEF HoldsMap
  <2>1. PICK a : a = table[getIndex(k, table)]
    OBVIOUS
  <2>2. map[k] # 0 /\ Holds(a, map[k]) /\ a = table[getIndex(k, table)]'
    BY <1>1, <1>2, <2>1, HoldsStays DEF HoldsMap, Calm, getIndex, Size
  <2>3. Holds(a, map[k])'
    BY <2>2, HoldsStays DEF Calm
  <2> QED
    BY <2>2, <2>3
<1> QED
  BY <1>1, <1>2 DEF TableOK

LEMMA ContinuedFields ==
    ASSUME NEW c, DOMAIN c = Fields, c.value \in Values, c.resizing \in BOOLEAN
    PROVE  LET d == Continued(c) IN
           /\ DOMAIN d = Fields /\ d.left = c.left /\ d.value \in Values /\ d.resizing \in BOOLEAN
           /\ d.i = 0 /\ (c.chain = <<>> => d.chain = <<>>) /\ d.purge = {}
           /\ \/ d.pc \in {"check", "task"} /\ d.key = c.key /\ d.op = c.op
              \/ d.pc = "idle" /\ c.op \notin {"get", "replace", "put", "putIfAbsent"}
           /\ d.pc = "idle" => d = Done(c, c.result)
           /\ d.pc # "idle" => /\ d.seen = c.seen /\ d.expect = c.expect /\ d.result = c.result
                               /\ d.yielded = c.yielded /\ d.excused = c.excused
                               /\ d.fresh = c.fresh /\ d.frozen = c.frozen
           /\ d.pc = "check" => d.op \in {"get", "replace"}
           /\ d.pc = "task" => d.op \in {"put", "putIfAbsent"}
<1>1. CASE c.op \in {"get", "replace"}
  <2>1. Continued(c) = [c EXCEPT !.pc = "check", !.purge = {}, !.after = 0, !.i = 0]
    BY <1>1, Zenon DEF Continued, allowResize
  <2> QED
    BY <1>1, <2>1 DEF Fields
<1>2. CASE allowResize(c)
  <2>1. Continued(c) = [c EXCEPT !.pc = "task", !.purge = {}, !.after = 0, !.i = 0,
                                 !.resizing = FALSE, !.built = <<>>]
    BY <1>2 DEF Continued, allowResize
  <2> QED
    BY <1>2, <2>1 DEF Fields, allowResize
<1>3. CASE c.op \notin {"get", "replace"} /\ ~allowResize(c)
  <2>1. Continued(c) = Done(c, c.result)
    BY <1>3 DEF Continued
  <2>2. None \in Values
    BY DEF Values
  <2>3. PICK d : d = Done(c, c.result)
    OBVIOUS
  <2>4. /\ DOMAIN d = Fields /\ d.pc = "idle" /\ d.left = c.left /\ d.value = None
        /\ d.purge = {} /\ d.i = 0 /\ d.chain = <<>>
    BY <2>3, DoneFields
  <2>5. d.resizing = FALSE
    BY <2>3, DoneResizing
  <2> QED
    BY <1>3, <2>1, <2>2, <2>3, <2>4, <2>5 DEF allowResize
<1> QED
  BY <1>1, <1>2, <1>3

\* The table, the entries and the lock are as before.
Quiet ==
    table' = table /\ entries' = entries /\ released' = released /\ map' = map /\ lock' = lock

LEMMA SameEntries ==
    ASSUME EntriesOK, entries' = entries, released' = released, map' = map
    PROVE  /\ Grows /\ MapFollows /\ MapShrinks /\ EntriesOK'
           /\ \A r : Made(r) /\ ~Alive(r) => (Made(r) /\ ~Alive(r))'
<1>1. ASSUME NEW e \in DOMAIN entries PROVE entries[e].gen \in Nat
  <2>1. entries[e] \in Entry
    BY DEF EntriesOK
  <2> QED
    BY <2>1 DEF Entry
<1>2. Grows
  BY <1>1 DEF Grows
<1>3. MapFollows
  <2>. SUFFICES ASSUME NEW r, Made(r), Alive(r)', map[KeyOf(r)] = r.e PROVE map'[KeyOf(r)] = r.e
    BY DEF MapFollows
  <2> QED
    OBVIOUS
<1>4. MapShrinks
  BY DEF MapShrinks
<1>5. EntriesOK'
  BY DEF EntriesOK, Made
<1> QED
  BY <1>2, <1>3, <1>4, <1>5 DEF Made, Alive

LEMMA QuietIsCalm ==
    ASSUME EntriesOK, table' = table, entries' = entries, released' = released, map' = map
    PROVE  Calm /\ EntriesOK' /\ \A r : Made(r) /\ ~Alive(r) => (Made(r) /\ ~Alive(r))'
BY SameEntries DEF Calm

\* A thread that is not rebuilding the table goes on with its call.
GoesOn(p) ==
    /\ call[p].pc \notin {"rebuild", "move"} /\ call'[p].pc \notin {"rebuild", "move"}
    /\ DOMAIN call' = Threads /\ CallOK(p)'
    /\ \A q \in Threads \ {p} : call'[q] = call[q]
    /\ queue' \cup pending' \cup call'[p].purge \subseteq queue \cup pending \cup call[p].purge

LEMMA QuietKeepsTInv ==
    ASSUME TInv, Quiet, NEW p \in Threads, GoesOn(p)
    PROVE  TInv'
<1>1. EntriesOK /\ Calm /\ EntriesOK' /\ \A r : Made(r) /\ ~Alive(r) => (Made(r) /\ ~Alive(r))'
  BY QuietIsCalm DEF TInv, Quiet
<1>2. DeadQueued'
  <2>1. ASSUME NEW r \in queue' \cup pending' PROVE (Made(r) /\ ~Alive(r))'
    BY <1>1 DEF TInv, DeadQueued, GoesOn
  <2>2. ASSUME NEW q \in Threads, NEW r \in call'[q].purge PROVE (Made(r) /\ ~Alive(r))'
    <3>1. Made(r) /\ ~Alive(r)
      BY <2>2 DEF TInv, DeadQueued, GoesOn
    <3> QED
      BY <1>1, <3>1
  <2> QED
    BY <2>1, <2>2 DEF DeadQueued
<1>3. ASSUME NEW q \in Threads PROVE CallOK(q)'
  <2>1. CASE q = p
    BY <2>1 DEF GoesOn
  <2>2. CASE q # p
    BY <2>2 DEF TInv, CallsOK, CallOK, GoesOn
  <2> QED
    BY <2>1, <2>2
<1>4. CallsOK'
  BY <1>3 DEF CallsOK, GoesOn
<1>5. LocksOK'
  BY DEF TInv, LocksOK, GoesOn, Quiet
<1>6. ASSUME NEW q \in Threads, lock = q PROVE q # p /\ SameTask(q)
  BY <1>6 DEF TInv, LocksOK, GoesOn, SameTask
<1>7. TableOK'
  BY <1>1, <1>6, TableOKStays DEF TInv, SameTask, Quiet
<1>8. ASSUME NEW q \in Threads, lock' = q PROVE Rebuilding(q)'
  BY <1>1, <1>6, <1>8, RebuildingStays DEF TInv, Quiet, TableOK
<1> QED
  BY <1>1, <1>2, <1>4, <1>5, <1>7, <1>8 DEF TInv

LEMMA BeginKeepsTInv ==
    ASSUME TInv, NEW p \in Threads, Begin(p) PROVE TInv'
<1>1. CallsOK /\ call[p].left \in 0 .. MaxCalls
  BY DEF TInv, CallsOK, CallOK
<1>2. Quiet /\ queue' = queue /\ pending' = pending
  BY DEF Begin, Quiet
<1>3. PICK d : d = call'[p]
  OBVIOUS
<1>4. /\ call[p].pc = "idle" /\ DOMAIN call' = Threads
      /\ \A q \in Threads \ {p} : call'[q] = call[q]
      /\ DOMAIN d = Fields
      /\ d.pc \in {"check", "table", "poll"} /\ d.left = call[p].left - 1 /\ d.left >= 0
      /\ d.op \notin Keyless => d.key \in Keys
      /\ d.value \in {None, FreshValue(p)}
      /\ d.purge = {} /\ d.i = 0 /\ d.chain = <<>>
  BY <1>1, <1>3, BeginFields
<1>5. d.resizing = FALSE
  BY <1>1, <1>3, BeginFields
<1>6. d.value \in Values
  BY <1>1, <1>4 DEF Values, FreshValue
<1>7. d.resizing \in BOOLEAN
  BY <1>5
<1>8. d.left \in 0 .. MaxCalls
  BY <1>1, <1>4, CallAssumption
<1>9. CallOK(p)'
  BY <1>3, <1>4, <1>6, <1>7, <1>8 DEF CallOK
<1>10. GoesOn(p)
  BY <1>2, <1>3, <1>4, <1>9 DEF GoesOn
<1> QED
  BY <1>2, <1>10, QuietKeepsTInv

LEMMA PollKeepsTInv ==
    ASSUME TInv, NEW p \in Threads, Poll(p) PROVE TInv'
<1>. PICK c : c = call[p]
  OBVIOUS
<1>. PICK d : d = call'[p]
  OBVIOUS
<1>1. /\ DOMAIN call = Threads /\ c.pc = "poll" /\ DOMAIN c = Fields
      /\ c.left \in 0 .. MaxCalls /\ c.value \in Values /\ c.resizing \in BOOLEAN
      /\ c.op \notin Keyless => c.key \in Keys
      /\ c.i = 0 /\ c.chain = <<>>
  BY DEF TInv, CallsOK, CallOK, Poll, Resting
<1>2. Quiet /\ pending' = pending
  BY DEF Poll, Quiet
<1>3. CASE \E r \in queue : /\ queue' = queue \ {r}
                            /\ call' = [call EXCEPT ![p].pc = "lock", ![p].purge = {r}]
  <2>1. PICK r \in queue : /\ queue' = queue \ {r}
                           /\ call' = [call EXCEPT ![p].pc = "lock", ![p].purge = {r}]
    BY <1>3
  <2>2. /\ DOMAIN call' = Threads /\ DOMAIN d = Fields /\ d.pc = "lock" /\ d.purge = {r}
        /\ d.left = c.left /\ d.value = c.value /\ d.resizing = c.resizing /\ d.op = c.op
        /\ d.key = c.key /\ d.i = 0 /\ d.chain = <<>>
        /\ \A q \in Threads \ {p} : call'[q] = call[q]
    BY <1>1, <2>1 DEF Fields
  <2>3. GoesOn(p)
    BY <1>1, <1>2, <2>1, <2>2 DEF GoesOn, CallOK
  <2> QED
    BY <1>2, <2>3, QuietKeepsTInv
<1>4. CASE /\ queue' = queue
           /\ call' = [call EXCEPT ![p] = [@ EXCEPT !.pc = "lock"]]
  <2>1. /\ DOMAIN call' = Threads /\ DOMAIN d = Fields /\ d.pc = "lock" /\ d.purge = c.purge
        /\ d.left = c.left /\ d.value = c.value /\ d.resizing = c.resizing /\ d.op = c.op
        /\ d.key = c.key /\ d.i = 0 /\ d.chain = <<>>
        /\ \A q \in Threads \ {p} : call'[q] = call[q]
    BY <1>1, <1>4 DEF Fields
  <2>2. GoesOn(p)
    BY <1>1, <1>2, <1>4, <2>1 DEF GoesOn, CallOK
  <2> QED
    BY <1>2, <2>2, QuietKeepsTInv
<1>5. CASE /\ queue' = queue
           /\ call' = [call EXCEPT ![p] = Continued(c)]
  <2>1. d = Continued(c) /\ DOMAIN call' = Threads /\ \A q \in Threads \ {p} : call'[q] = call[q]
    BY <1>1, <1>5
  <2>2. /\ DOMAIN d = Fields /\ d.left = c.left /\ d.value \in Values /\ d.resizing \in BOOLEAN
        /\ d.i = 0 /\ d.chain = <<>> /\ d.purge = {}
        /\ \/ d.pc \in {"check", "task"} /\ d.key = c.key /\ d.op = c.op
           \/ d.pc = "idle"
    BY <1>1, <2>1, ContinuedFields
  <2>3. GoesOn(p)
    BY <1>1, <1>2, <1>5, <2>1, <2>2 DEF GoesOn, CallOK
  <2> QED
    BY <1>2, <2>3, QuietKeepsTInv
<1> QED
  BY <1>1, <1>3, <1>4, <1>5 DEF Poll

\* A call ends without a step of its own.
LEMMA DoneIsOK ==
    ASSUME NEW c, c.left \in 0 .. MaxCalls, NEW x, NEW d, d = Done(c, x)
    PROVE  /\ DOMAIN d = Fields /\ d.pc = "idle" /\ d.left = c.left /\ d.value \in Values
           /\ d.resizing \in BOOLEAN /\ d.i = 0 /\ d.chain = <<>> /\ d.purge = {}
<1>1. /\ DOMAIN d = Fields /\ d.pc = "idle" /\ d.left = c.left /\ d.value = None
      /\ d.i = 0 /\ d.chain = <<>> /\ d.purge = {}
  BY DoneFields
<1>2. d.resizing = FALSE
  BY DoneResizing
<1>3. d.resizing \in BOOLEAN
  BY <1>2
<1> QED
  BY <1>1, <1>3 DEF Values

LEMMA DoneGoesOn ==
    ASSUME TInv, NEW p \in Threads, call[p].pc \notin {"rebuild", "move"},
           NEW c, c.left = call[p].left, NEW x, call' = [call EXCEPT ![p] = Done(c, x)],
           queue' = queue, pending' = pending
    PROVE  GoesOn(p)
<1>1. DOMAIN call = Threads /\ call[p].left \in 0 .. MaxCalls
  BY DEF TInv, CallsOK, CallOK
<1>. PICK d : d = call'[p]
  OBVIOUS
<1>2. d = Done(c, x) /\ DOMAIN call' = Threads /\ \A q \in Threads \ {p} : call'[q] = call[q]
  BY <1>1
<1>3. /\ DOMAIN d = Fields /\ d.pc = "idle" /\ d.left = c.left /\ d.value \in Values
      /\ d.resizing \in BOOLEAN /\ d.i = 0 /\ d.chain = <<>> /\ d.purge = {}
  BY <1>1, <1>2, DoneIsOK
<1>4. CallOK(p)'
  BY <1>1, <1>2, <1>3 DEF CallOK
<1> QED
  BY <1>2, <1>3, <1>4 DEF GoesOn

LEMMA CheckKeepsTInv ==
    ASSUME TInv, NEW p \in Threads, Check(p) PROVE TInv'
<1>. PICK c : c = call[p]
  OBVIOUS
<1>. PICK d : d = call'[p]
  OBVIOUS
<1>1. /\ DOMAIN call = Threads /\ c.pc = "check" /\ DOMAIN c = Fields
      /\ c.left \in 0 .. MaxCalls /\ c.value \in Values /\ c.resizing \in BOOLEAN
      /\ c.op \notin Keyless => c.key \in Keys
      /\ c.i = 0 /\ c.chain = <<>>
  BY DEF TInv, CallsOK, CallOK, Check, Resting
<1>2. Quiet /\ queue' = queue /\ pending' = pending
  BY DEF Check, Quiet
<1>3. CASE count > 0
  <2>1. PICK pc \in {"head", "task"} : call' = [call EXCEPT ![p] = [@ EXCEPT !.pc = pc]]
    BY <1>3 DEF Check
  <2>2. /\ DOMAIN call' = Threads /\ DOMAIN d = Fields /\ d.pc = pc /\ d.purge = c.purge
        /\ d.left = c.left /\ d.value = c.value /\ d.resizing = c.resizing /\ d.op = c.op
        /\ d.key = c.key /\ d.i = 0 /\ d.chain = <<>>
        /\ \A q \in Threads \ {p} : call'[q] = call[q]
    BY <1>1, <2>1 DEF Fields
  <2>3. GoesOn(p)
    BY <1>1, <1>2, <2>2 DEF GoesOn, CallOK
  <2> QED
    BY <1>2, <2>3, QuietKeepsTInv
<1>4. CASE ~(count > 0)
  <2>1. PICK b : b = [c EXCEPT !.excused = InTable(c.key) \/ TakenOut(c.key)]
    OBVIOUS
  <2>2. b.left = c.left
    BY <1>1, <2>1 DEF Fields
  <2>3. \/ call' = [call EXCEPT ![p] = Done(c, None)]
        \/ call' = [call EXCEPT ![p] = Done(b, None)]
    BY <1>4, <2>1 DEF Check
  <2>4. GoesOn(p)
    BY <1>1, <1>2, <2>2, <2>3, DoneGoesOn
  <2> QED
    BY <1>2, <2>4, QuietKeepsTInv
<1> QED
  BY <1>3, <1>4

LEMMA ReadHeadKeepsTInv ==
    ASSUME TInv, NEW p \in Threads, ReadHead(p) PROVE TInv'
<1>. PICK c : c = call[p]
  OBVIOUS
<1>. PICK d : d = call'[p]
  OBVIOUS
<1>1. /\ DOMAIN call = Threads /\ c.pc = "head" /\ DOMAIN c = Fields
      /\ c.left \in 0 .. MaxCalls /\ c.value \in Values /\ c.resizing \in BOOLEAN
      /\ c.op \notin Keyless => c.key \in Keys
  BY DEF TInv, CallsOK, CallOK, ReadHead
<1>2. Quiet /\ queue' = queue /\ pending' = pending
  BY DEF ReadHead, Quiet
<1>3. PICK x, chain : call' = [call EXCEPT ![p].pc = "find", ![p].excused = x, ![p].chain = chain]
  BY DEF ReadHead
<1>4. /\ DOMAIN call' = Threads /\ DOMAIN d = Fields /\ d.pc = "find" /\ d.purge = c.purge
      /\ d.left = c.left /\ d.value = c.value /\ d.resizing = c.resizing /\ d.op = c.op
      /\ d.key = c.key
      /\ \A q \in Threads \ {p} : call'[q] = call[q]
  BY <1>1, <1>3 DEF Fields
<1>5. GoesOn(p)
  BY <1>1, <1>2, <1>4 DEF GoesOn, CallOK, Resting
<1> QED
  BY <1>2, <1>5, QuietKeepsTInv

LEMMA FindKeepsTInv ==
    ASSUME TInv, NEW p \in Threads, Find(p) PROVE TInv'
<1>. PICK c : c = call[p]
  OBVIOUS
<1>. PICK d : d = call'[p]
  OBVIOUS
<1>1. /\ DOMAIN call = Threads /\ c.pc = "find" /\ DOMAIN c = Fields
      /\ c.left \in 0 .. MaxCalls /\ c.value \in Values /\ c.resizing \in BOOLEAN
      /\ c.op \notin Keyless => c.key \in Keys
  BY DEF TInv, CallsOK, CallOK, Find
<1>2. Quiet /\ queue' = queue /\ pending' = pending
  BY DEF Find, Quiet
<1>3. PICK found : found = findInChain(c.chain, c.key)
  OBVIOUS
<1>4. CASE found = <<>>
  <2>1. call' = [call EXCEPT ![p] = Done(c, None)]
    BY <1>3, <1>4 DEF Find
  <2> QED
    BY <1>1, <1>2, <2>1, DoneGoesOn, QuietKeepsTInv
<1>5. CASE found # <<>>
  <2>1. call' = [call EXCEPT ![p] = [@ EXCEPT !.pc = "value", !.chain = found]]
    BY <1>3, <1>5 DEF Find
  <2>2. /\ DOMAIN call' = Threads /\ DOMAIN d = Fields /\ d.pc = "value" /\ d.purge = c.purge
        /\ d.left = c.left /\ d.value = c.value /\ d.resizing = c.resizing /\ d.op = c.op
        /\ d.key = c.key
        /\ \A q \in Threads \ {p} : call'[q] = call[q]
    BY <1>1, <2>1 DEF Fields
  <2>3. GoesOn(p)
    BY <1>1, <1>2, <2>2 DEF GoesOn, CallOK, Resting
  <2> QED
    BY <1>2, <2>3, QuietKeepsTInv
<1> QED
  BY <1>4, <1>5

LEMMA ValueKeepsTInv ==
    ASSUME TInv, NEW p \in Threads, Value(p) PROVE TInv'
<1>1. PICK x : call' = [call EXCEPT ![p] = Done(call[p], x)]
  BY DEF Value
<1>2. Quiet /\ queue' = queue /\ pending' = pending /\ call[p].pc = "value"
  BY DEF Value, Quiet
<1> QED
  BY <1>1, <1>2, DoneGoesOn, QuietKeepsTInv

LEMMA IterateKeepsTInv ==
    ASSUME TInv, NEW p \in Threads, Iterate(p) PROVE TInv'
<1>. PICK c : c = call[p]
  OBVIOUS
<1>. PICK d : d = call'[p]
  OBVIOUS
<1>1. /\ DOMAIN call = Threads /\ c.pc \in {"table", "iterate"} /\ DOMAIN c = Fields
      /\ c.left \in 0 .. MaxCalls /\ c.value \in Values /\ c.resizing \in BOOLEAN
      /\ c.op \notin Keyless => c.key \in Keys
  BY DEF TInv, CallsOK, CallOK, Iterate, Iterator, NextChain, NextEntry
<1>2. Quiet /\ queue' = queue /\ pending' = pending
  BY DEF Iterate, Iterator, NextChain, NextEntry, Quiet
<1>3. CASE call' = [call EXCEPT ![p] = Done(c, None)]
  BY <1>1, <1>2, <1>3, DoneGoesOn, QuietKeepsTInv
<1>4. CASE /\ DOMAIN call' = Threads /\ DOMAIN d = Fields /\ d.pc = "iterate" /\ d.purge = c.purge
           /\ d.left = c.left /\ d.value = c.value /\ d.resizing = c.resizing /\ d.op = c.op
           /\ d.key = c.key
           /\ \A q \in Threads \ {p} : call'[q] = call[q]
  <2>1. GoesOn(p)
    BY <1>1, <1>2, <1>4 DEF GoesOn, CallOK, Resting
  <2> QED
    BY <1>2, <2>1, QuietKeepsTInv
<1>5. CASE Iterator(p)
  <2>1. call' = [call EXCEPT ![p].pc = "iterate"]
    BY <1>5 DEF Iterator
  <2> QED
    BY <1>1, <1>4, <2>1 DEF Fields
<1>6. CASE NextChain(p)
  <2>1. PICK t : t = View(c)
    OBVIOUS
  <2>2. CASE c.i = Size(t)
    BY <1>3, <1>6, <2>1, <2>2 DEF NextChain
  <2>3. CASE c.i # Size(t)
    <3>1. c.pc = "iterate"
      BY <1>6 DEF NextChain
    <3>2. call[p].i # Size(View(call[p]))
      BY <2>1, <2>3
    <3>3. /\ DOMAIN call' = Threads /\ \A q \in Threads \ {p} : call'[q] = call[q]
      BY <1>1, <1>6, <3>2 DEF NextChain
    <3>4. /\ DOMAIN d = Fields /\ d.pc = "iterate" /\ d.purge = c.purge
           /\ d.left = c.left /\ d.value = c.value /\ d.resizing = c.resizing /\ d.op = c.op
           /\ d.key = c.key
      BY <1>1, <1>6, <3>2 DEF NextChain, Fields
    <3> QED
      BY <1>1, <1>4, <3>1, <3>2, <3>3, <3>4 DEF Fields
  <2> QED
    BY <2>2, <2>3
<1>7. CASE NextEntry(p)
  <2>1. PICK y : call' = [call EXCEPT ![p].chain = Tail(@), ![p].yielded = y]
    BY <1>7 DEF NextEntry
  <2>2. c.pc = "iterate"
    BY <1>7 DEF NextEntry
  <2> QED
    BY <1>1, <1>4, <2>1, <2>2 DEF Fields
<1> QED
  BY <1>5, <1>6, <1>7 DEF Iterate

LEMMA StillKeepsTInv ==
    ASSUME TInv, Quiet, call' = call, queue' \cup pending' \subseteq queue \cup pending
    PROVE  TInv'
<1>1. EntriesOK /\ Calm /\ EntriesOK' /\ \A r : Made(r) /\ ~Alive(r) => (Made(r) /\ ~Alive(r))'
  BY QuietIsCalm DEF TInv, Quiet
<1>2. DeadQueued'
  <2>1. \A r \in queue' \cup pending' : Made(r) /\ ~Alive(r)
    BY DEF TInv, DeadQueued
  <2>2. \A q \in Threads : \A r \in call'[q].purge : Made(r) /\ ~Alive(r)
    BY DEF TInv, DeadQueued
  <2> QED
    BY <1>1, <2>1, <2>2 DEF DeadQueued
<1>3. CallsOK' /\ LocksOK'
  BY DEF TInv, CallsOK, CallOK, LocksOK, Quiet
<1>4. ASSUME NEW q \in Threads PROVE SameTask(q)
  BY DEF SameTask
<1>5. TableOK'
  BY <1>1, <1>4, TableOKStays DEF TInv, SameTask, Quiet
<1>6. ASSUME NEW q \in Threads, lock' = q PROVE Rebuilding(q)'
  BY <1>1, <1>4, <1>6, RebuildingStays DEF TInv, Quiet, TableOK
<1> QED
  BY <1>1, <1>2, <1>3, <1>5, <1>6 DEF TInv

LEMMA EnqueueKeepsTInv ==
    ASSUME TInv, NEW r \in pending, Enqueue(r) PROVE TInv'
BY StillKeepsTInv DEF Enqueue, Quiet

------------------------------------------------------------------------------
(* The collector.                                                          *)

LEMMA ObservedFields ==
    ASSUME NEW calls, NEW q \in Threads, NEW c, c = calls[q], DOMAIN c = Fields
    PROVE  LET d == Observed(calls)[q] IN
           /\ DOMAIN d = Fields
           /\ d.pc = c.pc /\ d.left = c.left /\ d.op = c.op
           /\ d.key = c.key /\ d.value = c.value /\ d.expect = c.expect
           /\ d.result = c.result /\ d.excused = c.excused
           /\ d.purge = c.purge /\ d.resizing = c.resizing
           /\ d.built = c.built /\ d.i = c.i /\ d.chain = c.chain
           /\ d.fresh = c.fresh /\ d.frozen = c.frozen
           /\ d.yielded = c.yielded
<1>1. PICK d : d = Observed(calls)[q]
  OBVIOUS
<1>2. \/ d = c
      \/ \E x : d = [c EXCEPT !.seen = x]
  <2>1. CASE calls[q].pc # "idle" /\ Asks(calls[q].op)
    <3>1. d = [calls[q] EXCEPT !.seen = @ \cup {ValueOf(map', entries', calls[q].key)}]
      BY <1>1, <2>1, Zenon DEF Observed
    <3> QED
      BY <3>1
  <2>2. CASE ~(calls[q].pc # "idle" /\ Asks(calls[q].op))
    <3>1. d = calls[q]
      BY <1>1, <2>2, Zenon DEF Observed
    <3> QED
      BY <3>1
  <2> QED
    BY <2>1, <2>2
<1>3. CASE d = c
  BY <1>1, <1>3
<1>4. CASE \E x : d = [c EXCEPT !.seen = x]
  BY <1>1, <1>4 DEF Fields
<1> QED
  BY <1>2, <1>3, <1>4

LEMMA CollectKeepsTInv ==
    ASSUME TInv, NEW e \in DOMAIN entries, Collect(e) PROVE TInv'
<1>1. /\ EntriesOK /\ CallsOK /\ entries[e] \in Entry
      /\ entries' = [entries EXCEPT ![e].collected = TRUE]
      /\ map' = [k \in Keys |-> IF map[k] = e THEN 0 ELSE map[k]]
      /\ call' = Observed(call)
      /\ UNCHANGED <<table, count, lock, released, queue>>
  BY DEF TInv, Collect, EntriesOK
<1>2. /\ DOMAIN entries' = DOMAIN entries
      /\ \A f \in DOMAIN entries : f # e => entries'[f] = entries[f]
      /\ entries'[e] = [entries[e] EXCEPT !.collected = TRUE]
  BY <1>1
<1>3. entries'[e] \in Entry /\ entries'[e].key = entries[e].key /\ entries'[e].gen = entries[e].gen
  BY <1>1, <1>2 DEF Entry
<1>4. entries'[e].collected
  BY <1>1, <1>2 DEF Entry
<1>5. entries' \in Seq(Entry) /\ Len(entries') = Len(entries)
  BY <1>1, <1>3, ExceptSeq DEF EntriesOK
<1>6. Grows
  <2>. SUFFICES ASSUME NEW f \in DOMAIN entries
                PROVE  /\ f \in DOMAIN entries' /\ entries'[f].key = entries[f].key
                       /\ entries'[f].gen \in Nat /\ entries[f].gen <= entries'[f].gen
                       /\ entries[f].collected => entries'[f].collected
    BY <1>1 DEF Grows
  <2>1. entries[f] \in Entry
    BY <1>1 DEF EntriesOK
  <2> QED
    BY <1>1, <1>2, <1>3, <1>4, <2>1 DEF Entry
<1>7. \A r \in released' : Made(r)'
  BY <1>1, <1>6, MadeStays DEF EntriesOK
<1>8. MapShrinks /\ map' \in [Keys -> 0 .. Len(entries')]
  BY <1>1, <1>5 DEF MapShrinks, EntriesOK
<1>9. ASSUME NEW k \in Keys, map'[k] # 0
      PROVE  entries'[map'[k]].key = k /\ ~entries'[map'[k]].collected
  <2>1. map[k] # 0 /\ map'[k] = map[k] /\ map[k] # e /\ map[k] \in DOMAIN entries
    <3>1. map[k] # 0 /\ map'[k] = map[k] /\ map[k] # e /\ map[k] \in 0 .. Len(entries)
      BY <1>1, <1>9 DEF EntriesOK
    <3>2. DOMAIN entries = 1 .. Len(entries) /\ Len(entries) \in Nat
      BY <1>1, LenProperties DEF EntriesOK
    <3> QED
      BY <3>1, <3>2
  <2> QED
    BY <1>1, <1>2, <2>1 DEF EntriesOK
<1>10. EntriesOK'
  BY <1>5, <1>7, <1>8, <1>9 DEF EntriesOK
<1>11. MapFollows
  <2>. SUFFICES ASSUME NEW r, Made(r), Alive(r)', map[KeyOf(r)] = r.e PROVE map'[KeyOf(r)] = r.e
    BY DEF MapFollows
  <2>1. r.e # e
    BY <1>4 DEF Alive
  <2>2. KeyOf(r) \in Keys
    BY <1>1, <1>6, MadeStays
  <2> QED
    BY <1>1, <2>1, <2>2
<1>12. Calm
  BY <1>1, <1>6, <1>8, <1>11 DEF Calm
<1>13. ASSUME NEW r, Made(r), ~Alive(r) PROVE (Made(r) /\ ~Alive(r))'
  BY <1>1, <1>6, <1>13, MadeStays
<1>14. ASSUME NEW q \in Threads
       PROVE  /\ SameTask(q) /\ DOMAIN call'[q] = Fields
              /\ call'[q].left = call[q].left /\ call'[q].op = call[q].op
              /\ call'[q].key = call[q].key /\ call'[q].value = call[q].value
  <2>1. DOMAIN call[q] = Fields
    BY <1>1 DEF CallsOK, CallOK
  <2>2. PICK d : d = Observed(call)[q]
    OBVIOUS
  <2>3. call'[q] = d
    BY <1>1, <2>2
  <2>4. /\ DOMAIN d = Fields
        /\ d.pc = call[q].pc /\ d.left = call[q].left /\ d.op = call[q].op
        /\ d.key = call[q].key /\ d.value = call[q].value
        /\ d.purge = call[q].purge /\ d.built = call[q].built
        /\ d.i = call[q].i /\ d.chain = call[q].chain
    BY <2>1, <2>2, ObservedFields
  <2>5. d.resizing = call[q].resizing
    BY <2>1, <2>2, ObservedFields
  <2> QED
    BY <2>3, <2>4, <2>5 DEF SameTask
<1>15. CallsOK'
  <2>1. DOMAIN call' = Threads
    BY <1>1 DEF Observed
  <2>2. ASSUME NEW q \in Threads PROVE CallOK(q)'
    BY <1>1, <1>14 DEF CallsOK, CallOK, SameTask
  <2> QED
    BY <2>1, <2>2 DEF CallsOK
<1>16. DeadQueued'
  <2>1. ASSUME NEW r \in queue' PROVE (Made(r) /\ ~Alive(r))'
    BY <1>1, <1>13, <2>1 DEF TInv, DeadQueued
  <2>2. ASSUME NEW q \in Threads, NEW r \in call'[q].purge PROVE (Made(r) /\ ~Alive(r))'
    BY <1>13, <1>14, <2>2 DEF TInv, DeadQueued, SameTask
  <2>3. ASSUME NEW r \in pending' PROVE (Made(r) /\ ~Alive(r))'
    <3>1. CASE r \in pending
      BY <1>13, <3>1 DEF TInv, DeadQueued
    <3>2. CASE r \in AllReferences(e)
      <4>1. PICK g \in 1 .. entries[e].gen : r = Ref(e, g)
        BY <3>2 DEF AllReferences
      <4>2. r \in Refs /\ r.e = e /\ r.gen <= entries[e].gen
        <5>1. e \in Nat /\ entries[e].gen \in Nat
          BY <1>1, LenProperties DEF EntriesOK, Entry
        <5> QED
          BY <4>1, <5>1 DEF Ref, Refs
      <4> QED
        BY <1>2, <1>3, <1>4, <4>2 DEF Made, Alive
    <3> QED
      BY <2>3, <3>1, <3>2 DEF Collect
  <2> QED
    BY <2>1, <2>2, <2>3 DEF DeadQueued
<1>17. LocksOK'
  BY <1>1, <1>14 DEF TInv, LocksOK, SameTask
<1>18. TableOK'
  BY <1>1, <1>12, <1>14, TableOKStays DEF TInv, SameTask
<1>19. ASSUME NEW q \in Threads, lock' = q PROVE Rebuilding(q)'
  BY <1>1, <1>12, <1>14, <1>19, RebuildingStays DEF TInv, TableOK
<1> QED
  BY <1>10, <1>15, <1>16, <1>17, <1>18, <1>19 DEF TInv

------------------------------------------------------------------------------
(* Rebuilding the chains.                                                  *)

LEMMA LockKeepsTInv ==
    ASSUME TInv, NEW p \in Threads, Lock(p) PROVE TInv'
<1>. PICK c : c = call[p]
  OBVIOUS
<1>. PICK d : d = call'[p]
  OBVIOUS
<1>1. /\ DOMAIN call = Threads /\ c.pc = "lock" /\ DOMAIN c = Fields
      /\ c.left \in 0 .. MaxCalls /\ c.value \in Values
      /\ c.op \notin Keyless => c.key \in Keys
      /\ c.i = 0 /\ c.chain = <<>> /\ lock = None
  BY DEF TInv, CallsOK, CallOK, Lock, Resting
<1>2. /\ table' = table /\ entries' = entries /\ released' = released /\ map' = map
      /\ pending' = pending /\ lock' = p
  BY DEF Lock
<1>3. PICK purge : purge = IF call[p].purge = {} THEN {} ELSE call[p].purge \cup queue
  OBVIOUS
<1>4. PICK resizing :
         resizing = (/\ allowResize(call[p])
                     /\ count - Cardinality(purge) > 0
                     /\ count - Cardinality(purge) >= resizeThreshold(table)
                     /\ Size(table) < MaxSegmentSize)
  OBVIOUS
<1>5. PICK built : built = IF resizing THEN createReferenceArray(2 * Size(table)) ELSE <<>>
  OBVIOUS
<1>6. /\ DOMAIN call' = Threads /\ DOMAIN d = Fields /\ d.pc = "rebuild" /\ d.purge = purge
      /\ d.left = c.left /\ d.value = c.value /\ d.resizing = resizing /\ d.op = c.op
      /\ d.key = c.key /\ d.i = 0 /\ d.chain = <<>> /\ d.built = built
      /\ \A q \in Threads \ {p} : call'[q] = call[q]
      /\ queue' = queue \ purge /\ resizing \in BOOLEAN
  <2>1. /\ DOMAIN call' = Threads /\ DOMAIN d = Fields /\ d.pc = "rebuild"
        /\ d.left = c.left /\ d.value = c.value /\ d.op = c.op
        /\ d.key = c.key /\ d.i = 0 /\ d.chain = <<>>
        /\ \A q \in Threads \ {p} : call'[q] = call[q]
    BY <1>1 DEF Lock, Fields
  <2>2. d.purge = purge /\ queue' = queue \ purge
    BY <1>1, <1>3 DEF Lock, Fields
  <2>3. resizing \in BOOLEAN
    BY <1>4
  <2>4. d.resizing = resizing
    BY <1>1, <1>3, <1>4 DEF Lock, Fields
  <2>5. d.built = built
    BY <1>1, <1>3, <1>4, <1>5 DEF Lock, Fields
  <2> QED
    BY <2>1, <2>2, <2>3, <2>4, <2>5
<1>7. /\ EntriesOK /\ Calm /\ EntriesOK' /\ \A r : Made(r) /\ ~Alive(r) => (Made(r) /\ ~Alive(r))'
  BY <1>2, QuietIsCalm DEF TInv
<1>8. CallsOK'
  <2>1. ASSUME NEW q \in Threads PROVE CallOK(q)'
    <3>1. CASE q = p
      BY <1>1, <1>4, <1>6, <3>1 DEF CallOK
    <3>2. CASE q # p
      BY <1>6, <3>2 DEF TInv, CallsOK, CallOK
    <3> QED
      BY <3>1, <3>2
  <2> QED
    BY <1>6, <2>1 DEF CallsOK
<1>9. DeadQueued'
  <2>1. purge \subseteq queue \cup call[p].purge
    BY <1>3
  <2>2. ASSUME NEW r, Made(r) /\ ~Alive(r) PROVE (Made(r) /\ ~Alive(r))'
    BY <1>7, <2>2
  <2>3. ASSUME NEW r \in queue' \cup pending' PROVE (Made(r) /\ ~Alive(r))'
    BY <1>2, <1>6, <2>2 DEF TInv, DeadQueued
  <2>4. ASSUME NEW q \in Threads, NEW r \in call'[q].purge PROVE (Made(r) /\ ~Alive(r))'
    BY <1>6, <2>1, <2>2, <2>4 DEF TInv, DeadQueued
  <2> QED
    BY <2>3, <2>4 DEF DeadQueued
<1>10. LocksOK'
  BY <1>1, <1>2, <1>6, KeyAssumption DEF TInv, LocksOK
<1>11. HoldsMap /\ IsTable(table) /\ CurrentTable(table)
  BY <1>1, KeyAssumption DEF TInv, TableOK
<1>12. PICK u : u = table
  OBVIOUS
<1>13. /\ IsTable(u)' /\ CurrentTable(u)'
       /\ \A k \in Keys : getIndex(k, u)' = getIndex(k, u)
       /\ \A x, y : Holds(x, y)' <=> Holds(x, y)
  <2>1. IsTable(u)' /\ CurrentTable(u)'
    BY <1>7, <1>11, <1>12, TableStays, CurrentTableStays DEF Calm
  <2> QED
    BY <1>2, <2>1 DEF getIndex, Size, Holds
<1>14. HoldsMap'
  BY <1>2, <1>11 DEF HoldsMap, Holds, getIndex, Size
<1>15. TableOK'
  BY <1>2, <1>12, <1>13, <1>14 DEF TableOK
<1>16. PICK t : t = IF resizing THEN built ELSE u
  OBVIOUS
<1>17. t = Target(d)'
  BY <1>2, <1>6, <1>12, <1>16 DEF Target
<1>18. HasSize(u) /\ 2 * Size(u) \in Nat \ {0} /\ 0 \in 0 .. Size(u)
  BY <1>11, <1>12 DEF IsTable, HasSize
<1>19. IsTable(t)' /\ CurrentTable(t)' /\ (resizing => \A i \in DOMAIN t : t[i] = <<>>)
  <2>1. CASE resizing
    <3>1. t = createReferenceArray(2 * Size(u))
      BY <1>5, <1>12, <1>16, <2>1
    <3>2. /\ IsTable(t) /\ CurrentTable(t) /\ \A i \in DOMAIN t : t[i] = <<>>
      BY <1>18, <3>1, EmptyTable
    <3> QED
      BY <1>7, <3>2, TableStays, CurrentTableStays DEF Calm
  <2>2. CASE ~resizing
    BY <1>13, <1>16, <2>2
  <2> QED
    BY <2>1, <2>2
<1>20. Rebuilding(p)'
  <2>1. IsChain(<<>>)' /\ Current(<<>>)'
    BY <1>7, EmptyChain, ChainStays, CurrentStays DEF Calm
  <2>2. ASSUME NEW k \in Keys, map'[k] # 0
        PROVE  getIndex(k, table)' >= 0 /\ Holds(table[getIndex(k, table)], map[k])'
    <3>1. Holds(table[getIndex(k, table)], map[k])'
      BY <1>14, <2>2 DEF HoldsMap
    <3>2. getIndex(k, u) \in DOMAIN u
      BY <1>18, IndexIn
    <3> QED
      BY <1>2, <1>12, <1>18, <3>1, <3>2 DEF HasSize, getIndex, Size
  <2>3. 0 \in 0 .. Size(table)'
    BY <1>2, <1>12, <1>18 DEF Size
  <2> QED
    BY <1>6, <1>17, <1>19, <2>1, <2>2, <2>3 DEF Rebuilding, Working
<1>21. \A q \in Threads : lock' = q => q = p
  BY <1>2
<1> QED
  BY <1>7, <1>8, <1>9, <1>10, <1>15, <1>20, <1>21 DEF TInv

\* A step of the thread that rebuilds the table.
Rebuilds(p) ==
    /\ lock = p /\ lock' = lock /\ call'[p].pc \in {"rebuild", "move"}
    /\ DOMAIN call' = Threads /\ CallOK(p)'
    /\ \A q \in Threads \ {p} : call'[q] = call[q]
    /\ call'[p].purge = call[p].purge /\ call'[p].resizing = call[p].resizing
    /\ map' = map /\ released' = released /\ queue' = queue /\ pending' = pending

LEMMA RebuildKeepsTInv ==
    ASSUME TInv, NEW p \in Threads, Rebuilds(p), Grows, EntriesOK', TableOK', Rebuilding(p)'
    PROVE  TInv'
<1>1. ASSUME NEW r, Made(r) /\ ~Alive(r) PROVE (Made(r) /\ ~Alive(r))'
  BY <1>1, MadeStays DEF TInv
<1>2. DeadQueued'
  <2>1. ASSUME NEW r \in queue' \cup pending' PROVE (Made(r) /\ ~Alive(r))'
    BY <1>1 DEF TInv, DeadQueued, Rebuilds
  <2>2. ASSUME NEW q \in Threads, NEW r \in call'[q].purge PROVE (Made(r) /\ ~Alive(r))'
    BY <1>1, <2>2 DEF TInv, DeadQueued, Rebuilds
  <2> QED
    BY <2>1, <2>2 DEF DeadQueued
<1>3. CallsOK'
  <2>1. ASSUME NEW q \in Threads PROVE CallOK(q)'
    <3>1. CASE q = p
      BY <3>1 DEF Rebuilds
    <3>2. CASE q # p
      BY <3>2 DEF TInv, CallsOK, CallOK, Rebuilds
    <3> QED
      BY <3>1, <3>2
  <2> QED
    BY <2>1 DEF CallsOK, Rebuilds
<1>4. LocksOK'
  BY DEF TInv, LocksOK, Rebuilds
<1>5. \A q \in Threads : lock' = q => q = p
  BY DEF Rebuilds
<1> QED
  BY <1>2, <1>3, <1>4, <1>5 DEF TInv

\* What the thread that rebuilds knows.
AtWork(p, c, t) ==
    /\ lock = p /\ EntriesOK /\ DOMAIN call = Threads
    /\ DOMAIN c = Fields /\ c.left \in 0 .. MaxCalls /\ c.value \in Values
    /\ c.resizing \in BOOLEAN /\ (c.op \notin Keyless => c.key \in Keys)
    /\ IsTable(table) /\ CurrentTable(table) /\ (c.resizing => HoldsMap)
    /\ Working(c, t, table)

LEMMA RebuildingIs ==
    ASSUME TInv, NEW p \in Threads, call[p].pc \in {"rebuild", "move"}, NEW c, c = call[p],
           NEW t, t = Target(c)
    PROVE  AtWork(p, c, t)
<1>1. lock = p /\ Rebuilding(p) /\ EntriesOK /\ TableOK
  BY DEF TInv, LocksOK
<1>2. IsTable(table) /\ CurrentTable(table) /\ (c.resizing => HoldsMap)
  BY <1>1 DEF TableOK
<1>3. /\ DOMAIN call = Threads
      /\ DOMAIN c = Fields /\ c.left \in 0 .. MaxCalls /\ c.value \in Values
      /\ c.resizing \in BOOLEAN /\ (c.op \notin Keyless => c.key \in Keys)
  BY DEF TInv, CallsOK, CallOK
<1> QED
  BY <1>1, <1>2, <1>3 DEF Rebuilding, AtWork

LEMMA TestKeepsTInv ==
    ASSUME TInv, NEW p \in Threads, Test(p) PROVE TInv'
<1>. PICK c : c = call[p]
  OBVIOUS
<1>. PICK d : d = call'[p]
  OBVIOUS
<1>. PICK t : t = Target(c)
  OBVIOUS
<1>. PICK u : u = table
  OBVIOUS
<1>1. c.pc = "rebuild" /\ c.chain # <<>>
  BY DEF Test
<1>2. AtWork(p, c, t)
  BY <1>1, RebuildingIs
<1>3. /\ lock = p /\ EntriesOK /\ DOMAIN call = Threads
      /\ DOMAIN c = Fields /\ c.left \in 0 .. MaxCalls /\ c.value \in Values
      /\ c.resizing \in BOOLEAN /\ (c.op \notin Keyless => c.key \in Keys)
      /\ Working(c, t, u)
  BY <1>2 DEF AtWork
<1>4. /\ table' = u /\ entries' = entries /\ released' = released /\ map' = map
      /\ queue' = queue /\ pending' = pending /\ lock' = lock
  BY DEF Test
<1>5. Calm /\ EntriesOK'
  BY <1>3, <1>4, QuietIsCalm
<1>6. PICK r : r = Head(c.chain)
  OBVIOUS
<1>7. ASSUME /\ DOMAIN call' = Threads /\ DOMAIN d = Fields /\ d.pc \in {"rebuild", "move"}
             /\ d.purge = c.purge
             /\ d.left = c.left /\ d.value = c.value /\ d.resizing = c.resizing /\ d.op = c.op
             /\ d.key = c.key /\ d.built = c.built
             /\ \A q \in Threads \ {p} : call'[q] = call[q],
             Working(d, t, u)
      PROVE  TInv'
  <2>1. Rebuilds(p)
    BY <1>3, <1>4, <1>7 DEF Rebuilds, CallOK, Resting
  <2>2. t = Target(d)'
    BY <1>4, <1>7 DEF Target
  <2>3. Working(d, t, u)'
    BY <1>3, <1>5, <1>7, WorkingStays DEF Calm
  <2>4. Rebuilding(p)'
    BY <1>4, <2>2, <2>3 DEF Rebuilding
  <2>5. TableOK'
    BY <1>3, <1>4, <1>5, <1>7, TableOKStays DEF TInv
  <2> QED
    BY <1>5, <2>1, <2>4, <2>5, RebuildKeepsTInv DEF Calm
<1>8. CASE r \notin c.purge /\ Alive(r)
  <2>1. call' = [call EXCEPT ![p] = [@ EXCEPT !.pc = "move"]]
    BY <1>6, <1>8 DEF Test
  <2>2. /\ DOMAIN call' = Threads /\ DOMAIN d = Fields /\ d.pc = "move" /\ d.purge = c.purge
        /\ d.left = c.left /\ d.value = c.value /\ d.resizing = c.resizing /\ d.op = c.op
        /\ d.key = c.key /\ d.i = c.i /\ d.chain = c.chain /\ d.built = c.built
        /\ \A q \in Threads \ {p} : call'[q] = call[q]
    BY <1>3, <2>1 DEF Fields
  <2>3. r \notin released
    BY <1>8 DEF Alive
  <2>4. Working(d, t, u)
    BY <1>1, <1>3, <1>6, <2>2, <2>3 DEF Working
  <2> QED
    BY <1>7, <2>2, <2>4
<1>9. CASE r \in c.purge \/ ~Alive(r)
  <2>1. PICK tail : tail = Tail(c.chain)
    OBVIOUS
  <2>2. ~(Head(call[p].chain) \notin call[p].purge /\ Alive(Head(call[p].chain)))
    BY <1>6, <1>9
  <2>3. /\ DOMAIN call' = Threads /\ DOMAIN d = Fields /\ d.pc = "rebuild" /\ d.purge = c.purge
        /\ d.left = c.left /\ d.value = c.value /\ d.resizing = c.resizing /\ d.op = c.op
        /\ d.key = c.key /\ d.i = c.i /\ d.chain = tail /\ d.built = c.built
        /\ \A q \in Threads \ {p} : call'[q] = call[q]
    <3>1. DOMAIN call' = Threads /\ \A q \in Threads \ {p} : call'[q] = call[q]
      BY <1>3 DEF Test
    <3>2. d = [call[p] EXCEPT !.chain = Tail(call[p].chain)]
      <4>1. d = IF Head(call[p].chain) \notin call[p].purge /\ Alive(Head(call[p].chain))
                THEN [call[p] EXCEPT !.pc = "move"]
                ELSE [call[p] EXCEPT !.chain = Tail(call[p].chain)]
        BY <1>3 DEF Test
      <4> QED
        BY <2>2, <4>1, Zenon
    <3>3. d = [c EXCEPT !.chain = tail]
      BY <2>1, <3>2
    <3> QED
      BY <1>1, <1>3, <3>1, <3>3 DEF Fields
  <2>4. ~Alive(r)
    BY <1>9 DEF TInv, DeadQueued
  <2>5. PICK chain : chain = c.chain
    OBVIOUS
  <2>6. IsChain(chain) /\ chain # <<>>
    BY <1>1, <1>3, <2>5 DEF Working
  <2>7. /\ chain[1] = r /\ 1 \in DOMAIN chain
        /\ IsChain(tail)
        /\ \A n \in DOMAIN tail : \E m \in DOMAIN chain : m # 1 /\ tail[n] = chain[m]
        /\ \A m \in DOMAIN chain : m # 1 => \E n \in DOMAIN tail : tail[n] = chain[m]
    BY <1>6, <2>1, <2>5, <2>6, TailChain
  <2>8. Current(tail)
    BY <1>3, <2>5, <2>7 DEF Current, Working
  <2>9. ASSUME NEW k \in Keys, map[k] # 0, Holds(chain, map[k]) PROVE Holds(tail, map[k])
    <3>1. PICK m \in DOMAIN chain : chain[m].e = map[k] /\ chain[m] \notin released
      BY <2>9 DEF Holds
    <3>2. ~entries[map[k]].collected
      BY <1>3, <2>9 DEF EntriesOK
    <3>3. m # 1
      BY <2>4, <2>7, <3>1, <3>2 DEF Alive
    <3> QED
      BY <2>7, <3>1, <3>3 DEF Holds
  <2>10. Working(d, t, u)
    BY <1>3, <2>3, <2>5, <2>7, <2>8, <2>9 DEF Working
  <2> QED
    BY <1>7, <2>3, <2>10
<1> QED
  BY <1>8, <1>9

LEMMA DetachKeepsTInv ==
    ASSUME TInv, NEW p \in Threads, Detach(p) PROVE TInv'
<1>. PICK c : c = call[p]
  OBVIOUS
<1>. PICK d : d = call'[p]
  OBVIOUS
<1>. PICK t : t = Target(c)
  OBVIOUS
<1>. PICK u : u = table
  OBVIOUS
<1>1. c.pc = "rebuild" /\ c.chain = <<>> /\ c.i < Size(u)
  BY DEF Detach, TakenUp
<1>2. AtWork(p, c, t)
  BY <1>1, RebuildingIs
<1>3. /\ lock = p /\ EntriesOK /\ DOMAIN call = Threads
      /\ DOMAIN c = Fields /\ c.left \in 0 .. MaxCalls /\ c.value \in Values
      /\ c.resizing \in BOOLEAN /\ (c.op \notin Keyless => c.key \in Keys)
      /\ IsTable(u) /\ CurrentTable(u) /\ (c.resizing => HoldsMap)
      /\ Working(c, t, u)
  BY <1>2 DEF AtWork
<1>4. /\ entries' = entries /\ released' = released /\ map' = map
      /\ queue' = queue /\ pending' = pending /\ lock' = lock
      /\ table' = IF call[p].resizing THEN table ELSE [table EXCEPT ![call[p].i] = <<>>]
  BY DEF Detach, TakenUp
<1>5. /\ DOMAIN call' = Threads /\ DOMAIN d = Fields /\ d.pc = "rebuild" /\ d.purge = c.purge
      /\ d.left = c.left /\ d.value = c.value /\ d.resizing = c.resizing /\ d.op = c.op
      /\ d.key = c.key /\ d.i = c.i + 1 /\ d.chain = u[c.i] /\ d.built = c.built
      /\ \A q \in Threads \ {p} : call'[q] = call[q]
  <2>1. call' = [call EXCEPT ![p] = [c EXCEPT !.chain = u[c.i], !.i = c.i + 1]]
    BY <1>3 DEF Detach, TakenUp
  <2> QED
    BY <1>1, <1>3, <2>1 DEF Fields
<1>6. c.i \in DOMAIN u /\ c.i \in Nat /\ DOMAIN u = 0 .. Size(u) - 1 /\ Size(u) \in Nat /\ c.i + 1 \in 0 .. Size(u)
  BY <1>1, <1>3 DEF Working, IsTable, HasSize
<1>7. PICK chain : chain = u[c.i]
  OBVIOUS
<1>8. /\ IsChain(chain) /\ Current(chain)
      /\ \A n \in DOMAIN chain : getIndex(KeyOf(chain[n]), u) = c.i
  BY <1>3, <1>6, <1>7 DEF IsTable, CurrentTable
<1>9. PICK w : w = table'
  OBVIOUS
<1>10. Grows /\ MapFollows /\ MapShrinks /\ EntriesOK'
  BY <1>3, <1>4, SameEntries
<1>11. Rebuilds(p)
  BY <1>3, <1>4, <1>5 DEF Rebuilds, CallOK, Resting
<1>12. \A x, y : getIndex(x, y)' = getIndex(x, y) /\ Size(y)' = Size(y)
  BY DEF getIndex, Size
<1>13. CASE c.resizing
  <2>1. table' = u /\ t = Target(d)'
    BY <1>4, <1>5, <1>13 DEF Target
  <2>2. Working(d, t, u)
    <3>1. /\ IsTable(t) /\ CurrentTable(t) /\ IsChain(chain) /\ Current(chain)
          /\ d.i \in 0 .. Size(u)
          /\ \A n \in DOMAIN chain : getIndex(KeyOf(chain[n]), u) = d.i - 1
          /\ \A i \in DOMAIN t : \A m \in DOMAIN t[i] : getIndex(KeyOf(t[i][m]), u) < c.i
      BY <1>3, <1>5, <1>6, <1>8, <1>13 DEF Working
    <3>2. ASSUME NEW i \in DOMAIN t, NEW m \in DOMAIN t[i], NEW n \in DOMAIN chain, t[i][m].e = chain[n].e
          PROVE  FALSE
      <4>1. KeyOf(t[i][m]) = KeyOf(chain[n])
        BY <3>2 DEF KeyOf
      <4> QED
        BY <1>6, <1>8, <3>1, <4>1
    <3>3. ASSUME NEW i \in DOMAIN t, NEW m \in DOMAIN t[i] PROVE getIndex(KeyOf(t[i][m]), u) < d.i
      <4>1. t[i][m] \in Refs /\ KeyOf(t[i][m]) \in Keys
        <5>1. Made(t[i][m])
          BY <3>1 DEF IsTable, IsChain
        <5>2. entries[t[i][m].e] \in Entry
          BY <1>3, <5>1 DEF Made, EntriesOK
        <5> QED
          BY <5>1, <5>2 DEF Made, Entry, KeyOf
      <4>2. getIndex(KeyOf(t[i][m]), u) \in DOMAIN u
        BY <1>3, <4>1, IndexIn DEF IsTable
      <4> QED
        BY <1>5, <1>6, <3>1, <4>2
    <3>4. ASSUME NEW k \in Keys, map[k] # 0
          PROVE  \/ getIndex(k, u) >= d.i /\ Holds(u[getIndex(k, u)], map[k])
                 \/ Holds(t[getIndex(k, t)], map[k])
                 \/ Holds(chain, map[k])
      <4>1. getIndex(k, u) \in DOMAIN u
        BY <1>3, IndexIn DEF IsTable
      <4>2. ~Holds(c.chain, map[k])
        BY <1>1, EmptyChain
      <4> QED
        BY <1>3, <1>5, <1>6, <1>7, <3>4, <4>1, <4>2 DEF Working
    <3> QED
      BY <1>5, <1>7, <3>1, <3>2, <3>3, <3>4 DEF Working
  <2>3. Working(d, t, u)'
    BY <1>3, <1>4, <1>10, <2>2, WorkingStays
  <2>4. Rebuilding(p)'
    BY <2>1, <2>3 DEF Rebuilding
  <2>5. TableOK'
    BY <1>3, <1>4, <1>5, <1>10, <2>1, TableOKStays DEF TInv, Calm
  <2> QED
    BY <1>10, <1>11, <2>4, <2>5, RebuildKeepsTInv
<1>14. CASE ~c.resizing
  <2>1. w = [u EXCEPT ![c.i] = <<>>] /\ t = u /\ w = Target(d)'
    BY <1>4, <1>5, <1>9, <1>14 DEF Target
  <2>2. /\ DOMAIN w = DOMAIN u /\ w[c.i] = <<>> /\ \A i \in DOMAIN u : i # c.i => w[i] = u[i]
    BY <1>6, <2>1
  <2>3. Size(w) = Size(u) /\ \A k : getIndex(k, w) = getIndex(k, u)
    BY <2>2, SameIndex
  <2>4. ASSUME NEW i \in DOMAIN w
        PROVE  /\ IsChain(w[i]) /\ Current(w[i])
               /\ \A n \in DOMAIN w[i] : i # c.i /\ getIndex(KeyOf(w[i][n]), u) = i
    BY <1>3, <2>2, EmptyChain DEF IsTable, CurrentTable
  <2>5. IsTable(w) /\ CurrentTable(w)
    BY <1>3, <2>2, <2>3, <2>4 DEF IsTable, HasSize, CurrentTable
  <2>6. Working(d, w, w)
    <3>1. ASSUME NEW i \in DOMAIN w, NEW m \in DOMAIN w[i], NEW n \in DOMAIN chain, w[i][m].e = chain[n].e
          PROVE  FALSE
      <4>1. KeyOf(w[i][m]) = KeyOf(chain[n])
        BY <3>1 DEF KeyOf
      <4> QED
        BY <1>8, <2>4, <4>1
    <3>2. ASSUME NEW k \in Keys, map[k] # 0
          PROVE  \/ getIndex(k, w) >= d.i /\ Holds(w[getIndex(k, w)], map[k])
                 \/ Holds(w[getIndex(k, w)], map[k])
                 \/ Holds(chain, map[k])
      <4>1. getIndex(k, u) \in DOMAIN u /\ getIndex(k, w) = getIndex(k, u)
        BY <1>3, <2>3, IndexIn DEF IsTable
      <4>2. ~Holds(c.chain, map[k])
        BY <1>1, EmptyChain
      <4>3. Holds(u[getIndex(k, u)], map[k])
        BY <1>3, <2>1, <3>2, <4>2 DEF Working
      <4> QED
        BY <1>7, <2>2, <4>1, <4>3
    <3>3. \A n \in DOMAIN chain : getIndex(KeyOf(chain[n]), w) = d.i - 1
      BY <1>5, <1>6, <1>8, <2>3
    <3> QED
      BY <1>5, <1>6, <1>7, <1>8, <1>14, <2>3, <2>5, <3>1, <3>2, <3>3 DEF Working
  <2>7. Working(d, w, w)'
    BY <1>3, <1>4, <1>10, <2>6, WorkingStays
  <2>8. Rebuilding(p)'
    BY <1>9, <2>1, <2>7 DEF Rebuilding
  <2>9. IsTable(w)' /\ CurrentTable(w)'
    BY <2>7 DEF Working
  <2>10. TableOK'
    BY <1>3, <1>4, <1>5, <1>9, <1>14, <2>9 DEF TableOK
  <2> QED
    BY <1>10, <1>11, <2>8, <2>10, RebuildKeepsTInv
<1> QED
  BY <1>3, <1>13, <1>14

LEMMA MoveKeepsTInv ==
    ASSUME TInv, NEW p \in Threads, Move(p) PROVE TInv'
<1>. PICK c : c = call[p]
  OBVIOUS
<1>. PICK d : d = call'[p]
  OBVIOUS
<1>. PICK t : t = Target(c)
  OBVIOUS
<1>. PICK u : u = table
  OBVIOUS
<1>1. c.pc = "move"
  BY DEF Move, MovedTo
<1>2. AtWork(p, c, t)
  BY <1>1, RebuildingIs
<1>3. /\ lock = p /\ EntriesOK /\ DOMAIN call = Threads
      /\ DOMAIN c = Fields /\ c.left \in 0 .. MaxCalls /\ c.value \in Values
      /\ c.resizing \in BOOLEAN /\ (c.op \notin Keyless => c.key \in Keys)
      /\ IsTable(u) /\ CurrentTable(u) /\ (c.resizing => HoldsMap)
      /\ Working(c, t, u)
  BY <1>2 DEF AtWork
<1>h. PICK head : head = Head(c.chain)
  OBVIOUS
<1>e. PICK e : e = head.e
  OBVIOUS
<1>t. PICK tail : tail = Tail(c.chain)
  OBVIOUS
<1>c. PICK chain : chain = c.chain
  OBVIOUS
<1>j. PICK j : j = getIndex(entries[e].key, t)
  OBVIOUS
<1>r. PICK r : r = Ref(e, entries[e].gen + 1)
  OBVIOUS
<1>w. PICK w : w = [t EXCEPT ![j] = <<r>> \o @]
  OBVIOUS
<1>4. IsChain(chain) /\ Current(chain) /\ chain # <<>> /\ head \notin released
  BY <1>1, <1>3, <1>h, <1>c DEF Working
<1>5. /\ chain[1] = head /\ 1 \in DOMAIN chain
      /\ IsChain(tail)
      /\ \A n \in DOMAIN tail : \E m \in DOMAIN chain : m # 1 /\ tail[n] = chain[m]
      /\ \A m \in DOMAIN chain : m # 1 => \E n \in DOMAIN tail : tail[n] = chain[m]
  <2>1. head = Head(chain) /\ tail = Tail(chain)
    BY <1>h, <1>t, <1>c
  <2>2. /\ chain[1] = Head(chain) /\ 1 \in DOMAIN chain
        /\ IsChain(Tail(chain))
        /\ \A n \in DOMAIN Tail(chain) : \E m \in DOMAIN chain : m # 1 /\ Tail(chain)[n] = chain[m]
        /\ \A m \in DOMAIN chain : m # 1 => \E n \in DOMAIN Tail(chain) : Tail(chain)[n] = chain[m]
    BY <1>4, TailChain
  <2> QED
    BY <2>1, <2>2
<1>6. Made(head) /\ e \in DOMAIN entries /\ e \in Nat /\ entries[e] \in Entry
  <2>1. Made(head)
    BY <1>4, <1>5 DEF IsChain
  <2> QED
    BY <1>3, <1>e, <2>1 DEF Made, Refs, EntriesOK
<1>7. /\ entries' = [entries EXCEPT ![e].gen = @ + 1]
      /\ released' = released /\ map' = map
      /\ queue' = queue /\ pending' = pending /\ lock' = lock
  BY <1>h, <1>e DEF Move, MovedTo
<1>8. table' = IF c.resizing THEN u ELSE w
  BY <1>h, <1>e, <1>j, <1>r, <1>w DEF Move, MovedTo
<1>9. /\ DOMAIN call' = Threads /\ DOMAIN d = Fields /\ d.pc = "rebuild" /\ d.purge = c.purge
      /\ d.left = c.left /\ d.value = c.value /\ d.resizing = c.resizing /\ d.op = c.op
      /\ d.key = c.key /\ d.i = c.i /\ d.chain = tail
      /\ d.built = IF c.resizing THEN w ELSE c.built
      /\ \A q \in Threads \ {p} : call'[q] = call[q]
  <2>1. PICK built : built = IF c.resizing THEN w ELSE c.built
    OBVIOUS
  <2>2. call' = [call EXCEPT ![p] = [c EXCEPT !.pc = "rebuild", !.chain = tail, !.built = built]]
    BY <1>3, <1>h, <1>e, <1>t, <1>j, <1>r, <1>w, <2>1 DEF Move, MovedTo
  <2> QED
    BY <1>1, <1>3, <2>1, <2>2 DEF Fields
<1>10. /\ DOMAIN entries' = DOMAIN entries
       /\ \A f \in DOMAIN entries : f # e => entries'[f] = entries[f]
       /\ entries'[e] = [entries[e] EXCEPT !.gen = @ + 1]
  BY <1>6, <1>7
<1>11. /\ entries'[e] \in Entry /\ entries'[e].key = entries[e].key
       /\ entries'[e].gen = entries[e].gen + 1 /\ entries[e].gen \in Nat
       /\ entries'[e].collected = entries[e].collected
  BY <1>6, <1>10 DEF Entry
<1>12. entries' \in Seq(Entry) /\ Len(entries') = Len(entries)
  BY <1>3, <1>7, <1>10, <1>11, ExceptSeq DEF EntriesOK
<1>13. Grows
  <2>. SUFFICES ASSUME NEW f \in DOMAIN entries
                PROVE  /\ f \in DOMAIN entries' /\ entries'[f].key = entries[f].key
                       /\ entries'[f].gen \in Nat /\ entries[f].gen <= entries'[f].gen
                       /\ entries[f].collected => entries'[f].collected
    BY <1>7 DEF Grows
  <2>1. entries[f] \in Entry
    BY <1>3 DEF EntriesOK
  <2> QED
    BY <1>10, <1>11, <2>1 DEF Entry
<1>14. MapFollows
  <2>. SUFFICES ASSUME NEW x, Made(x), Alive(x)', map[KeyOf(x)] = x.e PROVE map'[KeyOf(x)] = x.e
    BY DEF MapFollows
  <2> QED
    BY <1>7
<1>15. MapShrinks
  BY <1>7 DEF MapShrinks
<1>16. EntriesOK'
  <2>1. \A x \in released' : Made(x)'
    BY <1>3, <1>7, <1>13, MadeStays DEF EntriesOK
  <2>2. ASSUME NEW k \in Keys, map'[k] # 0
        PROVE  entries'[map'[k]].key = k /\ ~entries'[map'[k]].collected
    <3>1. map[k] \in 0 .. Len(entries) /\ map[k] # 0 /\ map'[k] = map[k]
      BY <1>3, <1>7, <2>2 DEF EntriesOK
    <3>2. map[k] \in DOMAIN entries
      BY <1>3, <3>1, LenProperties DEF EntriesOK
    <3>3. entries[map[k]].key = k /\ ~entries[map[k]].collected
      BY <1>3, <3>1 DEF EntriesOK
    <3> QED
      BY <1>10, <1>11, <3>1, <3>2, <3>3
  <2> QED
    BY <1>3, <1>7, <1>12, <2>1, <2>2 DEF EntriesOK
<1>17. Rebuilds(p)
  BY <1>3, <1>7, <1>9 DEF Rebuilds, CallOK, Resting
<1>18. w = Target(d)'
  BY <1>8, <1>9 DEF Target
<1>19. Working(c, t, u)'
  BY <1>3, <1>7, <1>13, <1>14, <1>15, WorkingStays
<1>20. r \in Refs /\ r.e = e /\ r.gen = entries[e].gen + 1 /\ Made(r)' /\ r \notin released
  <2>1. r \in Refs /\ r.e = e /\ r.gen = entries[e].gen + 1
    BY <1>6, <1>r, <1>11 DEF Ref, Refs
  <2>2. Made(r)'
    <3>1. r.gen <= entries'[r.e].gen
      BY <1>11, <2>1
    <3>2. r.e \in DOMAIN entries'
      BY <1>6, <1>10, <2>1
    <3> QED
      BY <2>1, <3>1, <3>2 DEF Made
  <2>3. ~Made(r)
    BY <1>6, <1>11, <2>1 DEF Made
  <2> QED
    BY <1>3, <2>1, <2>2, <2>3 DEF EntriesOK
<1>21. IsTable(t) /\ CurrentTable(t) /\ j \in DOMAIN t /\ IsChain(t[j]) /\ t[j] \in Seq(Refs)
  <2>1. IsTable(t) /\ CurrentTable(t)
    BY <1>3 DEF Working
  <2>2. entries[e].key \in Keys
    BY <1>6 DEF Entry
  <2>3. j \in DOMAIN t
    BY <1>j, <2>1, <2>2, IndexIn DEF IsTable
  <2> QED
    BY <2>1, <2>3 DEF IsTable, IsChain
<1>22. PICK new : new = <<r>> \o t[j]
  OBVIOUS
<1>23. /\ new \in Seq(Refs) /\ 1 \in DOMAIN new /\ new[1] = r
       /\ \A n \in DOMAIN t[j] : n + 1 \in DOMAIN new /\ new[n + 1] = t[j][n]
       /\ \A m \in DOMAIN new : m # 1 => m - 1 \in DOMAIN t[j] /\ new[m] = t[j][m - 1]
       /\ DOMAIN new \subseteq Nat /\ DOMAIN t[j] \subseteq Nat
  BY <1>20, <1>21, <1>22, PushChain
<1>24. DOMAIN w = DOMAIN t /\ w[j] = new /\ \A i \in DOMAIN t : i # j => w[i] = t[i]
  BY <1>w, <1>21, <1>22
<1>25. Size(w) = Size(t) /\ \A k : getIndex(k, w) = getIndex(k, t)
  BY <1>24, SameIndex
<1>26. KeyOf(r)' = entries[e].key /\ KeyOf(head) = entries[e].key /\ KeyOf(head)' = entries[e].key
       /\ head.e = e
  BY <1>11, <1>20, <1>e DEF KeyOf
<1>27. /\ IsTable(t)' /\ CurrentTable(t)' /\ IsChain(chain)' /\ Current(chain)' /\ c.i \in 0 .. Size(u)
       /\ \A n \in DOMAIN chain : getIndex(KeyOf(chain[n]), u)' = c.i - 1
       /\ \A i \in DOMAIN t : \A m \in DOMAIN t[i], n \in DOMAIN chain : t[i][m].e # chain[n].e
       /\ c.resizing => \A i \in DOMAIN t : \A m \in DOMAIN t[i] : getIndex(KeyOf(t[i][m]), u)' < c.i
       /\ \A k \in Keys : map[k] # 0 =>
             \/ getIndex(k, u) >= c.i /\ Holds(u[getIndex(k, u)], map[k])
             \/ Holds(t[getIndex(k, t)], map[k])
             \/ Holds(chain, map[k])
  <2>1. /\ IsTable(t)' /\ CurrentTable(t)' /\ IsChain(chain)' /\ Current(chain)'
        /\ \A n \in DOMAIN chain : getIndex(KeyOf(chain[n]), u)' = c.i - 1
        /\ \A i \in DOMAIN t : \A m \in DOMAIN t[i], n \in DOMAIN chain : t[i][m].e # chain[n].e
        /\ c.resizing => \A i \in DOMAIN t : \A m \in DOMAIN t[i] : getIndex(KeyOf(t[i][m]), u)' < c.i
    BY <1>19, <1>c DEF Working
  <2>2. /\ c.i \in 0 .. Size(u)
        /\ \A k \in Keys : map[k] # 0 =>
              \/ getIndex(k, u) >= c.i /\ Holds(u[getIndex(k, u)], map[k])
              \/ Holds(t[getIndex(k, t)], map[k])
              \/ Holds(chain, map[k])
    BY <1>3, <1>c DEF Working
  <2> QED
    BY <2>1, <2>2
<1>28. /\ \A x, y : getIndex(x, y)' = getIndex(x, y) /\ Size(y)' = Size(y)
       /\ \A x, y : Holds(x, y)' <=> Holds(x, y)
       /\ \A x : x \notin released' <=> x \notin released
  BY <1>7 DEF getIndex, Size, Holds
\* The longer chain.
<1>29. IsChain(new)'
  <2>1. ASSUME NEW m \in DOMAIN new PROVE Made(new[m])'
    <3>1. CASE m = 1
      BY <1>20, <1>23, <3>1
    <3>2. CASE m # 1
      <4>1. PICK x : x = t[j][m - 1]
        OBVIOUS
      <4>2. Made(x)
        BY <1>21, <1>23, <3>2, <4>1 DEF IsChain
      <4>3. Made(x)'
        BY <1>3, <1>13, <4>2, MadeStays
      <4> QED
        BY <1>23, <3>2, <4>1, <4>3
    <3> QED
      BY <3>1, <3>2
  <2>2. ASSUME NEW m \in DOMAIN t[j] PROVE t[j][m].e # e
    BY <1>5, <1>21, <1>26, <1>27
  <2>3. ASSUME NEW m \in DOMAIN new, NEW n \in DOMAIN new, new[m].e = new[n].e PROVE m = n
    <3>1. CASE m = 1 \/ n = 1
      BY <1>20, <1>23, <2>2, <2>3, <3>1
    <3>2. CASE m # 1 /\ n # 1
      <4>1. /\ m - 1 \in DOMAIN t[j] /\ n - 1 \in DOMAIN t[j]
            /\ t[j][m - 1].e = t[j][n - 1].e
        BY <1>23, <2>3, <3>2
      <4>2. m - 1 = n - 1
        BY <1>21, <4>1 DEF IsChain
      <4> QED
        BY <1>23, <4>2
    <3> QED
      BY <3>1, <3>2
  <2> QED
    BY <1>23, <2>1, <2>3 DEF IsChain
<1>30. Current(new)' /\ \A m \in DOMAIN new : getIndex(KeyOf(new[m]), t)' = j
  <2>1. ASSUME NEW m \in DOMAIN new PROVE (Alive(new[m]) => map[KeyOf(new[m])] = new[m].e)'
                                          /\ getIndex(KeyOf(new[m]), t)' = j
    <3>1. PICK x : x = new[m]
      OBVIOUS
    <3>2. CASE m = 1
      <4>1. x = r
        BY <1>23, <3>1, <3>2
      <4>2. getIndex(KeyOf(x), t)' = j
        BY <1>26, <4>1, <1>j DEF getIndex, Size
      <4>3. ASSUME Alive(x)' PROVE map'[KeyOf(x)'] = e
        <5>1. Alive(head)'
          BY <1>4, <1>7, <1>20, <1>26, <4>1, <4>3 DEF Alive
        <5>2. map'[KeyOf(head)'] = e
          BY <1>5, <1>26, <1>27, <5>1 DEF Current
        <5> QED
          BY <1>26, <4>1, <5>2
      <4> QED
        BY <1>20, <3>1, <4>1, <4>2, <4>3
    <3>3. CASE m # 1
      <4>1. m - 1 \in DOMAIN t[j] /\ x = t[j][m - 1]
        BY <1>23, <3>1, <3>3
      <4>2. getIndex(KeyOf(x), t)' = j
        BY <1>21, <1>27, <4>1 DEF IsTable
      <4>3. Alive(x)' => map'[KeyOf(x)'] = x.e
        BY <1>21, <1>27, <4>1 DEF CurrentTable, Current
      <4> QED
        BY <3>1, <4>2, <4>3
    <3> QED
      BY <3>2, <3>3
  <2> QED
    BY <2>1 DEF Current
<1>31. IsTable(w)' /\ CurrentTable(w)'
  <2>1. ASSUME NEW i \in DOMAIN w
        PROVE  /\ IsChain(w[i])' /\ Current(w[i])'
               /\ \A n \in DOMAIN w[i] : getIndex(KeyOf(w[i][n]), w)' = i
    <3>0. \A k : getIndex(k, w)' = getIndex(k, t)'
      BY <1>25, <1>28
    <3>1. CASE i = j
      BY <1>24, <1>29, <1>30, <3>0, <3>1
    <3>2. CASE i # j
      <4>1. i \in DOMAIN t /\ w[i] = t[i]
        BY <1>24, <3>2
      <4> QED
        BY <1>27, <3>0, <4>1 DEF IsTable, CurrentTable
    <3> QED
      BY <3>1, <3>2
  <2>2. HasSize(w)'
    BY <1>24, <1>25, <1>27, <1>28 DEF IsTable, HasSize
  <2> QED
    BY <2>1, <2>2 DEF IsTable, CurrentTable
\* What the tables hold.
<1>32. ASSUME NEW i \in DOMAIN t, NEW y, Holds(t[i], y) PROVE Holds(w[i], y)
  <2>1. CASE i = j
    BY <1>23, <1>24, <1>32, <2>1 DEF Holds
  <2>2. CASE i # j
    BY <1>24, <1>32, <2>2
  <2> QED
    BY <2>1, <2>2
<1>33. ASSUME NEW k \in Keys, map[k] # 0, Holds(chain, map[k])
       PROVE  Holds(w[getIndex(k, w)], map[k]) \/ Holds(tail, map[k])
  <2>1. PICK n \in DOMAIN chain : chain[n].e = map[k] /\ chain[n] \notin released
    BY <1>33 DEF Holds
  <2>2. CASE n = 1
    <3>1. map[k] = e /\ k = entries[e].key
      BY <1>3, <1>5, <1>26, <1>33, <2>1, <2>2 DEF EntriesOK
    <3>2. getIndex(k, w) = j
      BY <1>25, <3>1, <1>j
    <3> QED
      BY <1>20, <1>23, <1>24, <3>1, <3>2 DEF Holds
  <2>3. CASE n # 1
    BY <1>5, <2>1, <2>3 DEF Holds
  <2> QED
    BY <2>2, <2>3
<1>34. ASSUME NEW k \in Keys, map[k] # 0, NEW x, x = IF c.resizing THEN u ELSE w
       PROVE  \/ getIndex(k, x) >= c.i /\ Holds(x[getIndex(k, x)], map[k])
              \/ Holds(w[getIndex(k, w)], map[k])
              \/ Holds(tail, map[k])
  <2>1. CASE Holds(chain, map[k])
    BY <1>33, <1>34, <2>1
  <2>2. CASE Holds(t[getIndex(k, t)], map[k])
    <3>1. getIndex(k, t) \in DOMAIN t
      BY <1>21, IndexIn DEF IsTable
    <3> QED
      BY <1>25, <1>32, <2>2, <3>1
  <2>3. CASE getIndex(k, u) >= c.i /\ Holds(u[getIndex(k, u)], map[k])
    <3>1. CASE c.resizing
      BY <1>34, <2>3, <3>1
    <3>2. CASE ~c.resizing
      <4>1. t = u
        BY <3>2 DEF Target
      <4>2. getIndex(k, t) \in DOMAIN t
        BY <1>21, IndexIn DEF IsTable
      <4> QED
        BY <1>25, <1>32, <2>3, <4>1, <4>2
    <3> QED
      BY <3>1, <3>2
  <2> QED
    BY <1>27, <1>34, <2>1, <2>2, <2>3
<1>35. ASSUME NEW i \in DOMAIN w, NEW m \in DOMAIN w[i], NEW n \in DOMAIN tail
       PROVE  w[i][m].e # tail[n].e
  <2>1. PICK n2 \in DOMAIN chain : n2 # 1 /\ tail[n] = chain[n2]
    BY <1>5
  <2>2. chain[n2].e # e
    BY <1>4, <1>5, <1>26, <2>1 DEF IsChain
  <2>3. CASE i = j
    <3>1. CASE m = 1
      BY <1>20, <1>23, <1>24, <2>1, <2>2, <2>3, <3>1
    <3>2. CASE m # 1
      <4>1. j \in DOMAIN t /\ m - 1 \in DOMAIN t[j] /\ w[i][m] = t[j][m - 1]
        BY <1>21, <1>23, <1>24, <2>3, <3>2
      <4>2. \A l \in DOMAIN t[j], x \in DOMAIN chain : t[j][l].e # chain[x].e
        BY <1>27, <4>1
      <4>3. t[j][m - 1].e # chain[n2].e
        BY <4>1, <4>2
      <4> QED
        BY <2>1, <4>1, <4>3
    <3> QED
      BY <3>1, <3>2
  <2>4. CASE i # j
    BY <1>24, <1>27, <2>1, <2>4
  <2> QED
    BY <2>3, <2>4
<1>36. ASSUME c.resizing, NEW i \in DOMAIN w, NEW m \in DOMAIN w[i]
       PROVE  getIndex(KeyOf(w[i][m]), u)' < c.i
  <2>1. CASE i = j
    <3>1. CASE m = 1
      <4>1. w[i][m] = r
        BY <1>23, <1>24, <2>1, <3>1
      <4>2. getIndex(KeyOf(head), u)' = c.i - 1
        BY <1>5, <1>27
      <4>3. getIndex(KeyOf(r), u)' = getIndex(KeyOf(head), u)'
        BY <1>26, <1>28
      <4>4. c.i \in Int
        BY <1>27, <1>3 DEF IsTable, HasSize
      <4> QED
        BY <4>1, <4>2, <4>3, <4>4
    <3>2. CASE m # 1
      BY <1>21, <1>23, <1>24, <1>27, <1>36, <2>1, <3>2
    <3> QED
      BY <3>1, <3>2
  <2>2. CASE i # j
    BY <1>24, <1>27, <1>36, <2>2
  <2> QED
    BY <2>1, <2>2
<1>37. PICK x : x = IF c.resizing THEN u ELSE w
  OBVIOUS
<1>38. table' = x
  BY <1>8, <1>37
<1>39. Size(x) = Size(u) /\ \A k : getIndex(k, x) = getIndex(k, u)
  BY <1>25, <1>37 DEF Target
<1>40. Working(d, w, x)'
  <2>1. IsChain(tail)' /\ Current(tail)'
    <3>1. IsChain(tail)'
      BY <1>3, <1>5, <1>13, ChainStays
    <3>2. Current(tail)'
      BY <1>5, <1>27 DEF Current
    <3> QED
      BY <3>1, <3>2
  <2>2. \A n \in DOMAIN tail : getIndex(KeyOf(tail[n]), x)' = d.i - 1
    <3>. SUFFICES ASSUME NEW n \in DOMAIN tail PROVE getIndex(KeyOf(tail[n]), x)' = c.i - 1
      BY <1>9
    <3>1. PICK m \in DOMAIN chain : tail[n] = chain[m]
      BY <1>5
    <3> QED
      BY <1>27, <1>28, <1>39, <3>1
  <2>3. \A i \in DOMAIN w : \A m \in DOMAIN w[i], n \in DOMAIN tail : w[i][m].e # tail[n].e
    BY <1>35
  <2>4. d.resizing => \A i \in DOMAIN w : \A m \in DOMAIN w[i] : getIndex(KeyOf(w[i][m]), x)' < d.i
    BY <1>9, <1>28, <1>36, <1>39
  <2>5. ASSUME NEW k \in Keys, map'[k] # 0
        PROVE  \/ getIndex(k, x)' >= d.i /\ Holds(x[getIndex(k, x)], map[k])'
               \/ Holds(w[getIndex(k, w)], map[k])'
               \/ Holds(tail, map[k])'
    <3>1. map[k] # 0 /\ map'[k] = map[k]
      BY <1>7, <2>5
    <3>2. \/ getIndex(k, x) >= c.i /\ Holds(x[getIndex(k, x)], map[k])
          \/ Holds(w[getIndex(k, w)], map[k])
          \/ Holds(tail, map[k])
      BY <1>34, <1>37, <3>1
    <3>3. \A y : Holds(y, map[k])' <=> Holds(y, map[k])
      BY <1>7 DEF Holds
    <3> QED
      BY <1>9, <1>28, <3>2, <3>3
  <2>6. d.i \in 0 .. Size(x)'
    BY <1>9, <1>27, <1>28, <1>39
  <2> QED
    BY <1>9, <1>31, <2>1, <2>2, <2>3, <2>4, <2>5, <2>6 DEF Working
<1>41. Rebuilding(p)'
  BY <1>18, <1>38, <1>40 DEF Rebuilding
<1>42. TableOK'
  <2>1. IsTable(x)' /\ CurrentTable(x)'
    <3>1. IsTable(u)' /\ CurrentTable(u)'
      BY <1>3, <1>13, <1>14, TableStays, CurrentTableStays
    <3> QED
      BY <1>31, <1>37, <3>1
  <2>2. CASE c.resizing
    <3>1. HoldsMap'
      <4>1. x = u
        BY <1>37, <2>2
      <4>2. HoldsMap
        BY <1>3, <2>2
      <4> QED
        BY <1>7, <1>28, <1>38, <4>1, <4>2 DEF HoldsMap, Holds, getIndex, Size
    <3> QED
      BY <1>38, <2>1, <3>1 DEF TableOK
  <2>3. CASE ~c.resizing
    BY <1>3, <1>7, <1>9, <1>38, <2>1, <2>3 DEF TableOK
  <2> QED
    BY <2>2, <2>3
<1> QED
  BY <1>13, <1>16, <1>17, <1>41, <1>42, RebuildKeepsTInv

LEMMA ReplacedFields ==
    ASSUME NEW calls, NEW q \in Threads, NEW c, c = calls[q], DOMAIN c = Fields
    PROVE  LET d == Replaced(calls)[q] IN
           /\ DOMAIN d = Fields
           /\ d.pc = c.pc /\ d.left = c.left /\ d.op = c.op
           /\ d.key = c.key /\ d.value = c.value /\ d.expect = c.expect
           /\ d.result = c.result /\ d.excused = c.excused /\ d.seen = c.seen
           /\ d.purge = c.purge /\ d.resizing = c.resizing
           /\ d.built = c.built /\ d.i = c.i /\ d.chain = c.chain
           /\ d.yielded = c.yielded
<1>1. PICK d : d = Replaced(calls)[q]
  OBVIOUS
<1>2. \/ d = c
      \/ \E x : d = [c EXCEPT !.fresh = FALSE, !.frozen = x]
  <2>1. CASE calls[q].pc = "iterate" /\ calls[q].fresh
    <3>1. d = [calls[q] EXCEPT !.fresh = FALSE, !.frozen = table]
      BY <1>1, <2>1, Zenon DEF Replaced
    <3> QED
      BY <3>1
  <2>2. CASE ~(calls[q].pc = "iterate" /\ calls[q].fresh)
    <3>1. d = calls[q]
      BY <1>1, <2>2, Zenon DEF Replaced
    <3> QED
      BY <3>1
  <2> QED
    BY <2>1, <2>2
<1>3. CASE d = c
  BY <1>1, <1>3
<1>4. CASE \E x : d = [c EXCEPT !.fresh = FALSE, !.frozen = x]
  BY <1>1, <1>4 DEF Fields
<1> QED
  BY <1>2, <1>3, <1>4

\* Nobody works on the table, which is whole.
LEMMA FreeKeepsTInv ==
    ASSUME EntriesOK', DeadQueued', CallsOK', IsTable(table)', CurrentTable(table)', HoldsMap',
           lock' = None, \A p \in Threads : call'[p].pc \notin {"rebuild", "move"}
    PROVE  TInv'
<1>1. \A p \in Threads : lock' # p
  BY KeyAssumption
<1>2. LocksOK'
  BY <1>1 DEF LocksOK
<1>3. TableOK'
  BY DEF TableOK
<1> QED
  BY <1>1, <1>2, <1>3 DEF TInv

LEMMA PublishKeepsTInv ==
    ASSUME TInv, NEW p \in Threads, Publish(p) PROVE TInv'
<1>. PICK c : c = call[p]
  OBVIOUS
<1>. PICK t : t = Target(c)
  OBVIOUS
<1>. PICK u : u = table
  OBVIOUS
<1>1. c.pc = "rebuild" /\ c.chain = <<>> /\ c.i = Size(u)
  BY DEF Publish, Published
<1>2. AtWork(p, c, t)
  BY <1>1, RebuildingIs
<1>3. /\ lock = p /\ EntriesOK /\ DOMAIN call = Threads
      /\ DOMAIN c = Fields /\ c.left \in 0 .. MaxCalls /\ c.value \in Values
      /\ c.resizing \in BOOLEAN /\ (c.op \notin Keyless => c.key \in Keys)
      /\ IsTable(u) /\ CurrentTable(u) /\ (c.resizing => HoldsMap)
      /\ Working(c, t, u)
  BY <1>2 DEF AtWork
<1>4. /\ entries' = entries /\ released' = released /\ map' = map
      /\ queue' = queue /\ pending' = pending /\ lock' = None
      /\ table' = t
  BY DEF Publish, Published, Target
<1>5. PICK calls : calls = [call EXCEPT ![p] = Continued(c)]
  OBVIOUS
<1>6. call' = Replaced(calls) \/ call' = calls
  BY <1>5 DEF Publish, Published
<1>7. PICK b : b = Continued(c)
  OBVIOUS
<1>8. /\ DOMAIN b = Fields /\ b.left = c.left /\ b.value \in Values /\ b.resizing \in BOOLEAN
      /\ b.i = 0 /\ b.chain = <<>> /\ b.purge = {}
      /\ \/ b.pc \in {"check", "task"} /\ b.key = c.key /\ b.op = c.op
         \/ b.pc = "idle"
  BY <1>1, <1>3, <1>7, ContinuedFields
<1>9. DOMAIN calls = Threads /\ calls[p] = b /\ \A q \in Threads \ {p} : calls[q] = call[q]
  BY <1>3, <1>5, <1>7
<1>10. ASSUME NEW q \in Threads PROVE calls[q].pc \notin {"rebuild", "move"} /\ DOMAIN calls[q] = Fields
  BY <1>3, <1>8, <1>9 DEF TInv, LocksOK, CallsOK, CallOK
<1>11. DOMAIN call' = Threads
  BY <1>6, <1>9 DEF Replaced
<1>12. ASSUME NEW q \in Threads
       PROVE  /\ DOMAIN call'[q] = Fields /\ call'[q].pc = calls[q].pc
              /\ call'[q].left = calls[q].left /\ call'[q].op = calls[q].op
              /\ call'[q].key = calls[q].key /\ call'[q].value = calls[q].value
              /\ call'[q].i = calls[q].i /\ call'[q].chain = calls[q].chain
              /\ call'[q].purge = calls[q].purge /\ call'[q].resizing = calls[q].resizing
  <2>1. PICK x : x = calls[q]
    OBVIOUS
  <2>2. CASE call' = Replaced(calls)
    BY <1>10, <2>1, <2>2, ReplacedFields
  <2>3. CASE call' = calls
    BY <1>10, <2>3
  <2> QED
    BY <1>6, <2>2, <2>3
<1>13. CallsOK'
  <2>1. ASSUME NEW q \in Threads PROVE CallOK(q)'
    <3>1. CASE q = p
      BY <1>3, <1>8, <1>9, <1>12, <3>1 DEF CallOK
    <3>2. CASE q # p
      BY <1>9, <1>12, <3>2 DEF TInv, CallsOK, CallOK
    <3> QED
      BY <3>1, <3>2
  <2> QED
    BY <1>11, <2>1 DEF CallsOK
<1>14. /\ Grows /\ MapFollows /\ MapShrinks /\ EntriesOK'
       /\ \A r : Made(r) /\ ~Alive(r) => (Made(r) /\ ~Alive(r))'
  BY <1>3, <1>4, SameEntries
<1>15. DeadQueued'
  <2>1. ASSUME NEW r \in queue' \cup pending' PROVE (Made(r) /\ ~Alive(r))'
    BY <1>4, <1>14 DEF TInv, DeadQueued
  <2>2. ASSUME NEW q \in Threads, NEW r \in call'[q].purge PROVE (Made(r) /\ ~Alive(r))'
    BY <1>8, <1>9, <1>12, <1>14, <2>2 DEF TInv, DeadQueued
  <2> QED
    BY <2>1, <2>2 DEF DeadQueued
<1>16. IsTable(t)' /\ CurrentTable(t)'
  <2>1. IsTable(t) /\ CurrentTable(t)
    BY <1>3 DEF Working
  <2> QED
    BY <1>3, <1>14, <2>1, TableStays, CurrentTableStays
<1>17. HoldsMap'
  <2>1. ASSUME NEW k \in Keys, map[k] # 0 PROVE Holds(t[getIndex(k, t)], map[k])
    <3>1. getIndex(k, u) \in 0 .. Size(u) - 1 /\ Size(u) \in Nat
      BY <1>3, IndexIn DEF IsTable, HasSize
    <3>2. ~(getIndex(k, u) >= c.i)
      BY <1>1, <3>1
    <3> QED
      BY <1>1, <1>3, <2>1, <3>2, EmptyChain DEF Working
  <2> QED
    BY <1>4, <2>1 DEF HoldsMap, Holds, getIndex, Size
<1>18. \A q \in Threads : call'[q].pc \notin {"rebuild", "move"}
  BY <1>10, <1>12
<1> QED
  BY <1>4, <1>13, <1>14, <1>15, <1>16, <1>17, <1>18, FreeKeepsTInv

------------------------------------------------------------------------------
(* The writers.                                                            *)

LEMMA MinIn ==
    ASSUME NEW S, S \subseteq Nat, S # {}
    PROVE  Min(S) \in S
<1>1. OpToRel(<, Nat) = {x \in Nat \X Nat : x[1] < x[2]}
  BY DEF OpToRel
<1>2. PICK less : less = {x \in Nat \X Nat : x[1] < x[2]}
  OBVIOUS
<1>3. IsWellFoundedOn(less, Nat)
  BY <1>1, <1>2, NatLessThanWellFounded
<1>4. PICK m \in S : \A n \in S : ~(<<n, m>> \in less)
  BY <1>3, WFMin, Zenon
<1>5. ASSUME NEW n \in S PROVE m <= n
  <2>1. m \in Nat /\ n \in Nat
    OBVIOUS
  <2>2. n < m => <<n, m>> \in less
    BY <1>2, <2>1
  <2>3. ~(n < m)
    BY <1>4, <2>2
  <2> QED
    BY <2>1, <2>3
<1>6. \E x \in S : \A y \in S : x <= y
  BY <1>5
<1>7. Min(S) = CHOOSE x \in S : \A y \in S : x <= y
  BY DEF Min
<1> QED
  BY <1>6, <1>7, Zenon

LEMMA FoundIs ==
    ASSUME NEW chain, IsChain(chain), NEW key, NEW found, found = findInChain(chain, key)
    PROVE  /\ found = <<>> <=> Hits(chain, key) = {}
           /\ found # <<>> =>
                 \E n \in Hits(chain, key) : found = <<chain[n]>> /\ Head(found) = chain[n]
<1>. DEFINE hits == Hits(chain, key)
<1>1. hits \subseteq DOMAIN chain /\ DOMAIN chain = 1 .. Len(chain) /\ Len(chain) \in Nat
  BY LenProperties DEF Hits, IsChain
<1>. HIDE DEF hits
<1>2. CASE hits = {}
  <2>1. found = <<>>
    BY <1>2 DEF findInChain, hits
  <2> QED
    BY <1>2, <2>1 DEF hits
<1>3. CASE hits # {}
  <2>1. found = <<chain[Min(hits)]>>
    BY <1>3 DEF findInChain, hits
  <2>2. hits \subseteq Nat
    BY <1>1
  <2>3. Min(hits) \in hits
    BY <1>3, <2>2, MinIn
  <2>4. found # <<>> /\ Head(found) = chain[Min(hits)]
    BY <2>1
  <2> QED
    BY <1>3, <2>1, <2>3, <2>4 DEF hits
<1> QED
  BY <1>2, <1>3

\* The calls after a task of p: that of p has ended or waits for the purge.
Ended(p, calls) ==
    /\ DOMAIN calls = Threads
    /\ \A q \in Threads \ {p} : calls[q] = call[q]
    /\ DOMAIN calls[p] = Fields /\ calls[p].left = call[p].left /\ calls[p].value \in Values
    /\ calls[p].resizing \in BOOLEAN /\ calls[p].i = 0 /\ calls[p].chain = <<>>
    /\ calls[p].purge \subseteq call[p].purge
    /\ \/ calls[p].pc = "idle"
       \/ /\ calls[p].pc = "poll" /\ call[p].pc # "idle"
          /\ calls[p].op = call[p].op /\ calls[p].key = call[p].key

LEMMA DoneEnded ==
    ASSUME CallsOK, NEW p \in Threads, NEW x, NEW calls,
           calls = [call EXCEPT ![p] = Done(call[p], x)]
    PROVE  Ended(p, calls)
<1>. PICK c : c = call[p]
  OBVIOUS
<1>. PICK d : d = calls[p]
  OBVIOUS
<1>1. DOMAIN call = Threads /\ c.left \in 0 .. MaxCalls
  BY DEF CallsOK, CallOK
<1>2. d = Done(c, x) /\ DOMAIN calls = Threads /\ \A q \in Threads \ {p} : calls[q] = call[q]
  BY <1>1
<1>3. /\ DOMAIN d = Fields /\ d.pc = "idle" /\ d.left = c.left /\ d.value \in Values
      /\ d.resizing \in BOOLEAN /\ d.i = 0 /\ d.chain = <<>> /\ d.purge = {}
  BY <1>1, <1>2, DoneIsOK
<1> QED
  BY <1>1, <1>2, <1>3 DEF Ended

LEMMA EndedCalls ==
    ASSUME TInv, NEW p \in Threads, lock = None, NEW calls, Ended(p, calls),
           \/ call' = calls
           \/ call' = Observed(calls)
           \/ call' = Observed(Replaced(calls))
    PROVE  /\ CallsOK'
           /\ \A q \in Threads : call'[q].pc \notin {"rebuild", "move"}
           /\ \A q \in Threads : call'[q].purge \subseteq call[q].purge
<1>1. ASSUME NEW q \in Threads
      PROVE  /\ DOMAIN call[q] = Fields /\ call[q].left \in 0 .. MaxCalls
             /\ call[q].pc \notin {"rebuild", "move"} /\ CallOK(q) /\ DOMAIN call = Threads
  BY KeyAssumption DEF TInv, LocksOK, CallsOK, CallOK
<1>2. DOMAIN calls = Threads /\ \A q \in Threads : DOMAIN calls[q] = Fields
  BY <1>1 DEF Ended
<1>3. ASSUME NEW q \in Threads
      PROVE  /\ DOMAIN call'[q] = Fields /\ call'[q].pc = calls[q].pc
             /\ call'[q].left = calls[q].left /\ call'[q].op = calls[q].op
             /\ call'[q].key = calls[q].key /\ call'[q].value = calls[q].value
             /\ call'[q].i = calls[q].i /\ call'[q].chain = calls[q].chain
             /\ call'[q].purge = calls[q].purge /\ call'[q].resizing = calls[q].resizing
             /\ DOMAIN call' = Threads
  <2>1. PICK x : x = calls[q]
    OBVIOUS
  <2>2. CASE call' = calls
    BY <1>2, <2>2
  <2>3. CASE call' = Observed(calls)
    <3>1. DOMAIN call' = Threads
      BY <2>3 DEF Observed
    <3> QED
      BY <1>2, <2>1, <2>3, <3>1, ObservedFields
  <2>4. CASE call' = Observed(Replaced(calls))
    <3>1. DOMAIN call' = Threads
      BY <2>4 DEF Observed
    <3>2. PICK replaced : replaced = Replaced(calls)
      OBVIOUS
    <3>3. PICK y : y = replaced[q]
      OBVIOUS
    <3>4. /\ DOMAIN y = Fields /\ y.pc = x.pc /\ y.left = x.left /\ y.op = x.op
          /\ y.key = x.key /\ y.value = x.value /\ y.i = x.i /\ y.chain = x.chain
          /\ y.purge = x.purge /\ y.resizing = x.resizing
      BY <1>2, <2>1, <3>2, <3>3, ReplacedFields
    <3>5. call' = Observed(replaced)
      BY <2>4, <3>2
    <3>6. PICK z : z = Observed(replaced)[q]
      OBVIOUS
    <3>7. /\ DOMAIN z = Fields /\ z.pc = y.pc /\ z.left = y.left /\ z.op = y.op
          /\ z.key = y.key /\ z.value = y.value /\ z.i = y.i /\ z.chain = y.chain
          /\ z.purge = y.purge /\ z.resizing = y.resizing
      BY <3>3, <3>4, <3>6, ObservedFields
    <3> QED
      BY <2>1, <3>1, <3>4, <3>5, <3>6, <3>7
  <2> QED
    BY <2>2, <2>3, <2>4
<1>4. ASSUME NEW q \in Threads PROVE CallOK(q)'
  <2>1. CASE q = p
    <3>1. /\ calls[p].pc \in Resting
          /\ calls[p].pc # "idle" => calls[p].op = call[p].op /\ calls[p].key = call[p].key
          /\ calls[p].left = call[p].left /\ calls[p].value \in Values
          /\ calls[p].resizing \in BOOLEAN /\ calls[p].i = 0 /\ calls[p].chain = <<>>
      BY DEF Ended, Resting
    <3>2. CASE calls[p].pc = "idle"
      BY <1>1, <1>3, <2>1, <3>1, <3>2 DEF CallOK
    <3>3. CASE calls[p].pc # "idle"
      <4>1. call[p].op \notin Keyless => call[p].key \in Keys
        BY <1>1, <3>3 DEF CallOK, Ended
      <4> QED
        BY <1>1, <1>3, <2>1, <3>1, <3>3, <4>1 DEF CallOK
    <3> QED
      BY <3>2, <3>3
  <2>2. CASE q # p
    BY <1>1, <1>3, <2>2 DEF CallOK, Ended
  <2> QED
    BY <2>1, <2>2
<1>5. CallsOK'
  BY <1>3, <1>4 DEF CallsOK
<1>6. ASSUME NEW q \in Threads
      PROVE  call'[q].pc \notin {"rebuild", "move"} /\ call'[q].purge \subseteq call[q].purge
  <2>1. CASE q = p
    BY <1>3, <2>1 DEF Ended
  <2>2. CASE q # p
    BY <1>1, <1>3, <2>2 DEF Ended
  <2> QED
    BY <2>1, <2>2
<1> QED
  BY <1>5, <1>6

\* What a task finds when nobody holds the lock.
LEMMA TaskFinds ==
    ASSUME TInv, lock = None, NEW k \in Keys, NEW i, i = getIndex(k, table),
           NEW found, found = findInChain(table[i], k)
    PROVE  /\ IsTable(table) /\ CurrentTable(table) /\ HoldsMap /\ i \in DOMAIN table
           /\ found = <<>> => map[k] = 0
           /\ found # <<>> =>
                 \E n \in DOMAIN table[i] :
                    /\ found = <<table[i][n]>> /\ Head(found) = table[i][n]
                    /\ Alive(table[i][n]) /\ Made(table[i][n])
                    /\ KeyOf(table[i][n]) = k /\ map[k] = table[i][n].e
<1>1. IsTable(table) /\ CurrentTable(table) /\ HoldsMap /\ EntriesOK
  BY KeyAssumption DEF TInv, TableOK
<1>2. i \in DOMAIN table /\ IsChain(table[i]) /\ Current(table[i])
  BY <1>1, IndexIn DEF IsTable, CurrentTable
<1>3. PICK chain : chain = table[i]
  OBVIOUS
<1>4. /\ found = <<>> <=> Hits(chain, k) = {}
      /\ found # <<>> => \E n \in Hits(chain, k) : found = <<chain[n]>> /\ Head(found) = chain[n]
  BY <1>2, <1>3, FoundIs
<1>5. ASSUME found = <<>>, map[k] # 0 PROVE FALSE
  <2>1. PICK n \in DOMAIN chain : chain[n].e = map[k] /\ chain[n] \notin released
    BY <1>1, <1>3, <1>5 DEF HoldsMap, Holds
  <2>2. entries[map[k]].key = k /\ ~entries[map[k]].collected
    BY <1>1, <1>5 DEF EntriesOK
  <2>3. n \in Hits(chain, k)
    BY <2>1, <2>2 DEF Hits, Alive
  <2> QED
    BY <1>4, <1>5, <2>3
<1>6. ASSUME found # <<>>
      PROVE  \E n \in DOMAIN chain :
                /\ found = <<chain[n]>> /\ Head(found) = chain[n]
                /\ Alive(chain[n]) /\ Made(chain[n])
                /\ KeyOf(chain[n]) = k /\ map[k] = chain[n].e
  <2>1. PICK n \in Hits(chain, k) : found = <<chain[n]>> /\ Head(found) = chain[n]
    BY <1>4, <1>6
  <2>2. n \in DOMAIN chain /\ Alive(chain[n]) /\ KeyOf(chain[n]) = k
    BY <2>1 DEF Hits, KeyOf
  <2>3. Made(chain[n]) /\ map[k] = chain[n].e
    BY <1>2, <1>3, <2>2 DEF IsChain, Current
  <2> QED
    BY <2>1, <2>2, <2>3
<1> QED
  BY <1>1, <1>2, <1>3, <1>5, <1>6

LEMMA DeadStays ==
    ASSUME TInv, Grows, NEW others, \A r \in others : (Made(r) /\ ~Alive(r))',
           queue' \cup pending' \subseteq queue \cup pending \cup others,
           \A q \in Threads : call'[q].purge \subseteq call[q].purge
    PROVE  DeadQueued'
<1>1. ASSUME NEW r, Made(r), ~Alive(r) PROVE (Made(r) /\ ~Alive(r))'
  BY <1>1, MadeStays DEF TInv
<1>2. ASSUME NEW r \in queue' \cup pending' PROVE (Made(r) /\ ~Alive(r))'
  BY <1>1 DEF TInv, DeadQueued
<1>3. ASSUME NEW q \in Threads, NEW r \in call'[q].purge PROVE (Made(r) /\ ~Alive(r))'
  BY <1>1, <1>3 DEF TInv, DeadQueued
<1> QED
  BY <1>2, <1>3 DEF DeadQueued

LEMMA HoldsMapStays ==
    ASSUME HoldsMap, released' = released, table' = table, MapShrinks
    PROVE  HoldsMap'
<1>. SUFFICES ASSUME NEW k \in Keys, map'[k] # 0 PROVE Holds(table[getIndex(k, table)], map[k])'
  BY DEF HoldsMap
<1>1. map[k] # 0 /\ Holds(table[getIndex(k, table)], map[k]) /\ map'[k] = map[k]
  BY DEF HoldsMap, MapShrinks
<1> QED
  BY <1>1 DEF Holds, getIndex, Size

LEMMA SetValueKeeps ==
    ASSUME EntriesOK, NEW e \in DOMAIN entries, NEW v \in Values, SetValue(e, v),
           map' = map, released' = released
    PROVE  Grows /\ MapFollows /\ MapShrinks /\ EntriesOK'
<1>1. entries' = [entries EXCEPT ![e].value = v] /\ entries[e] \in Entry
  BY DEF SetValue, EntriesOK
<1>2. /\ DOMAIN entries' = DOMAIN entries
      /\ \A f \in DOMAIN entries : f # e => entries'[f] = entries[f]
      /\ entries'[e] = [entries[e] EXCEPT !.value = v]
  BY <1>1
<1>3. /\ entries'[e] \in Entry /\ entries'[e].key = entries[e].key
      /\ entries'[e].gen = entries[e].gen
      /\ entries'[e].collected = entries[e].collected
  BY <1>1, <1>2 DEF Entry
<1>4. entries' \in Seq(Entry) /\ Len(entries') = Len(entries)
  BY <1>1, <1>2, <1>3, ExceptSeq DEF EntriesOK
<1>5. Grows
  <2>. SUFFICES ASSUME NEW f \in DOMAIN entries
                PROVE  /\ f \in DOMAIN entries' /\ entries'[f].key = entries[f].key
                       /\ entries'[f].gen \in Nat /\ entries[f].gen <= entries'[f].gen
                       /\ entries[f].collected => entries'[f].collected
    BY DEF Grows
  <2>1. entries[f] \in Entry
    BY DEF EntriesOK
  <2> QED
    BY <1>2, <1>3, <2>1 DEF Entry
<1>6. MapFollows
  <2>. SUFFICES ASSUME NEW x, Made(x), Alive(x)', map[KeyOf(x)] = x.e PROVE map'[KeyOf(x)] = x.e
    BY DEF MapFollows
  <2> QED
    OBVIOUS
<1>7. MapShrinks
  BY DEF MapShrinks
<1>8. EntriesOK'
  <2>1. \A x \in released' : Made(x)'
    BY <1>5, MadeStays DEF EntriesOK
  <2>2. ASSUME NEW k \in Keys, map'[k] # 0
        PROVE  entries'[map'[k]].key = k /\ ~entries'[map'[k]].collected
    <3>1. map[k] \in 0 .. Len(entries) /\ map[k] # 0 /\ map'[k] = map[k]
      BY <2>2 DEF EntriesOK
    <3>2. map[k] \in DOMAIN entries
      BY <3>1, LenProperties DEF EntriesOK
    <3>3. entries[map[k]].key = k /\ ~entries[map[k]].collected
      BY <3>1 DEF EntriesOK
    <3> QED
      BY <1>2, <1>3, <3>1, <3>2, <3>3
  <2> QED
    BY <1>4, <2>1, <2>2 DEF EntriesOK
<1> QED
  BY <1>5, <1>6, <1>7, <1>8

\* A task that changes no chain and releases nothing.
LEMMA TaskKeepsTInv ==
    ASSUME TInv, NEW p \in Threads, lock = None, lock' = lock, table' = table, released' = released,
           queue' = queue, pending' = pending, Grows, MapFollows, MapShrinks, EntriesOK',
           NEW calls, Ended(p, calls), call' = calls \/ call' = Observed(calls)
    PROVE  TInv'
<1>1. /\ CallsOK'
      /\ \A q \in Threads : call'[q].pc \notin {"rebuild", "move"}
      /\ \A q \in Threads : call'[q].purge \subseteq call[q].purge
  BY EndedCalls
<1>2. IsTable(table) /\ CurrentTable(table) /\ HoldsMap /\ EntriesOK
  BY KeyAssumption DEF TInv, TableOK
<1>. PICK u : u = table
  OBVIOUS
<1>3. IsTable(u)' /\ CurrentTable(u)'
  BY <1>2, TableStays, CurrentTableStays
<1>4. HoldsMap'
  BY <1>2, HoldsMapStays
<1>5. PICK others : others = {}
  OBVIOUS
<1>6. DeadQueued'
  BY <1>1, <1>5, DeadStays
<1> QED
  BY <1>1, <1>3, <1>4, <1>6, FreeKeepsTInv

LEMMA ReplaceKeepsTInv ==
    ASSUME TInv, NEW p \in Threads, Replace(p) PROVE TInv'
<1>. PICK c : c = call[p]
  OBVIOUS
<1>1. /\ c.pc = "task" /\ c.op = "replace" /\ lock = None /\ c.value \in Values /\ c.key \in Keys
      /\ CallsOK /\ EntriesOK
  BY DEF Replace, TInv, CallsOK, CallOK, Keyless
<1>2. UNCHANGED <<table, count, lock, released, pending, queue, map, collected>>
  BY DEF Replace
<1>3. PICK i : i = getIndex(c.key, table)
  OBVIOUS
<1>4. PICK found : found = findInChain(table[i], c.key)
  OBVIOUS
<1>5. found = Found(c)
  BY <1>3, <1>4 DEF Found
<1>6. CASE found # <<>> /\ AsExpected(c, Head(found))
  <2>1. PICK n \in DOMAIN table[i] :
           Head(found) = table[i][n] /\ Made(table[i][n])
    BY <1>1, <1>3, <1>4, <1>6, TaskFinds
  <2>2. SetValue(Head(found).e, c.value) /\ Head(found).e \in DOMAIN entries
    BY <1>5, <1>6, <2>1 DEF Replace, Made
  <2>3. Grows /\ MapFollows /\ MapShrinks /\ EntriesOK'
    BY <1>1, <1>2, <2>2, SetValueKeeps
  <2>4. PICK x : call' = Observed([call EXCEPT ![p] = Done(c, x)])
    BY <1>5, <1>6 DEF Replace
  <2>5. PICK calls : calls = [call EXCEPT ![p] = Done(call[p], x)]
    OBVIOUS
  <2>6. Ended(p, calls)
    BY <1>1, <2>5, DoneEnded
  <2> QED
    BY <1>1, <1>2, <2>3, <2>4, <2>5, <2>6, TaskKeepsTInv
<1>7. CASE ~(found # <<>> /\ AsExpected(c, Head(found)))
  <2>1. entries' = entries /\ call' = [call EXCEPT ![p] = Done(c, None)]
    BY <1>5, <1>7 DEF Replace
  <2>2. Grows /\ MapFollows /\ MapShrinks /\ EntriesOK'
    BY <1>1, <1>2, <2>1, SameEntries
  <2>3. PICK calls : calls = [call EXCEPT ![p] = Done(call[p], None)]
    OBVIOUS
  <2>4. Ended(p, calls)
    BY <1>1, <2>3, DoneEnded
  <2> QED
    BY <1>1, <1>2, <2>1, <2>2, <2>3, <2>4, TaskKeepsTInv
<1> QED
  BY <1>6, <1>7

LEMMA AddKeeps ==
    ASSUME EntriesOK, IsTable(table), CurrentTable(table), HoldsMap, released' = released,
           NEW key \in Keys, map[key] = 0, NEW value \in Values, Add(key, value)
    PROVE  /\ Grows /\ EntriesOK'
           /\ IsTable(table)' /\ CurrentTable(table)' /\ HoldsMap'
<1>. PICK u : u = table
  OBVIOUS
<1>i. PICK i : i = getIndex(key, u)
  OBVIOUS
<1>e. PICK e : e = Len(entries) + 1
  OBVIOUS
<1>n. PICK entry : entry = [key |-> key, value |-> value, collected |-> FALSE, gen |-> 1]
  OBVIOUS
<1>r. PICK r : r = Ref(e, 1)
  OBVIOUS
<1>w. PICK w : w = table'
  OBVIOUS
<1>1. entry \in Entry /\ entry.key = key /\ entry.gen = 1
  BY <1>n DEF Entry
<1>1a. ~entry.collected
  BY <1>n
<1>2. entries' = Append(entries, entry) /\ map' = [map EXCEPT ![key] = e]
  BY <1>e, <1>n DEF Add
<1>3. w = [u EXCEPT ![i] = <<r>> \o @]
  BY <1>e, <1>i, <1>r, <1>w DEF Add
<1>4. /\ entries \in Seq(Entry) /\ Len(entries) \in Nat /\ DOMAIN entries = 1 .. Len(entries)
      /\ e \in Nat \ {0} /\ e \notin DOMAIN entries
  BY <1>e, LenProperties DEF EntriesOK
<1>5. /\ entries' \in Seq(Entry) /\ Len(entries') = e /\ DOMAIN entries' = 1 .. e
      /\ \A f \in DOMAIN entries : f \in DOMAIN entries' /\ entries'[f] = entries[f]
      /\ entries'[e] = entry /\ e \in DOMAIN entries'
  <2>1. /\ entries' \in Seq(Entry) /\ Len(entries') = Len(entries) + 1
        /\ \A f \in 1 .. Len(entries) : entries'[f] = entries[f]
        /\ entries'[Len(entries) + 1] = entry
    BY <1>1, <1>2, <1>4, AppendProperties
  <2>2. DOMAIN entries' = 1 .. Len(entries')
    BY <2>1, LenProperties
  <2> QED
    BY <1>4, <1>e, <2>1, <2>2
<1>6. Grows
  <2>. SUFFICES ASSUME NEW f \in DOMAIN entries
                PROVE  /\ f \in DOMAIN entries' /\ entries'[f].key = entries[f].key
                       /\ entries'[f].gen \in Nat /\ entries[f].gen <= entries'[f].gen
                       /\ entries[f].collected => entries'[f].collected
    BY DEF Grows
  <2>1. entries[f] \in Entry
    BY <1>4
  <2> QED
    BY <1>5, <2>1 DEF Entry
<1>7. DOMAIN map = Keys /\ map'[key] = e /\ \A k \in Keys : k # key => map'[k] = map[k]
  BY <1>2 DEF EntriesOK
<1>8. EntriesOK'
  <2>1. \A x \in released' : Made(x)'
    BY <1>6, MadeStays DEF EntriesOK
  <2>2. map' \in [Keys -> 0 .. Len(entries')]
    <3>1. e \in 0 .. e /\ 0 .. Len(entries) \subseteq 0 .. e
      BY <1>4, <1>e
    <3>2. map \in [Keys -> 0 .. e]
      BY <3>1 DEF EntriesOK
    <3> QED
      BY <1>2, <1>5, <3>1, <3>2
  <2>3. ASSUME NEW k \in Keys, map'[k] # 0
        PROVE  entries'[map'[k]].key = k /\ ~entries'[map'[k]].collected
    <3>1. CASE k = key
      BY <1>1, <1>1a, <1>5, <1>7, <3>1
    <3>2. CASE k # key
      <4>1. map'[k] = map[k] /\ map[k] # 0 /\ map[k] \in 0 .. Len(entries)
        BY <1>7, <2>3, <3>2 DEF EntriesOK
      <4>2. map[k] \in DOMAIN entries
        BY <1>4, <4>1
      <4>3. entries[map[k]].key = k /\ ~entries[map[k]].collected
        BY <4>1 DEF EntriesOK
      <4> QED
        BY <1>5, <4>1, <4>2, <4>3
    <3> QED
      BY <3>1, <3>2
  <2> QED
    BY <1>5, <2>1, <2>2, <2>3 DEF EntriesOK
<1>9. /\ r \in Refs /\ r.e = e /\ r.gen = 1 /\ Made(r)' /\ ~Made(r) /\ r \notin released
      /\ KeyOf(r)' = key
  <2>1. r \in Refs /\ r.e = e /\ r.gen = 1
    BY <1>4, <1>r DEF Ref, Refs
  <2>2. ~Made(r)
    BY <1>4, <2>1 DEF Made
  <2>3. r.gen <= entries'[r.e].gen /\ r.e \in DOMAIN entries'
    BY <1>1, <1>5, <2>1
  <2>4. KeyOf(r)' = key
    BY <1>1, <1>5, <2>1 DEF KeyOf
  <2> QED
    BY <2>1, <2>2, <2>3, <2>4 DEF Made, EntriesOK
<1>10. MapFollows
  <2>. SUFFICES ASSUME NEW x, Made(x), map[KeyOf(x)] = x.e PROVE map'[KeyOf(x)] = x.e
    BY DEF MapFollows
  <2>1. KeyOf(x) \in Keys /\ x.e \in DOMAIN entries
    BY <1>6, MadeStays DEF Made
  <2>2. KeyOf(x) # key
    BY <1>4, <2>1
  <2> QED
    BY <1>7, <2>1, <2>2
<1>11. IsTable(u)' /\ CurrentTable(u)' /\ IsTable(u)
  BY <1>6, <1>10, TableStays, CurrentTableStays
<1>12. i \in DOMAIN u /\ IsChain(u[i]) /\ u[i] \in Seq(Refs)
  <2>1. i \in DOMAIN u
    BY <1>11, <1>i, IndexIn DEF IsTable
  <2> QED
    BY <1>11, <2>1 DEF IsTable, IsChain
<1>13. PICK new : new = <<r>> \o u[i]
  OBVIOUS
<1>14. /\ new \in Seq(Refs) /\ 1 \in DOMAIN new /\ new[1] = r
       /\ \A n \in DOMAIN u[i] : n + 1 \in DOMAIN new /\ new[n + 1] = u[i][n]
       /\ \A m \in DOMAIN new : m # 1 => m - 1 \in DOMAIN u[i] /\ new[m] = u[i][m - 1]
       /\ DOMAIN new \subseteq Nat /\ DOMAIN u[i] \subseteq Nat
  BY <1>9, <1>12, <1>13, PushChain
<1>15. DOMAIN w = DOMAIN u /\ w[i] = new /\ \A j \in DOMAIN u : j # i => w[j] = u[j]
  BY <1>3, <1>12, <1>13
<1>16. Size(w) = Size(u) /\ \A k : getIndex(k, w) = getIndex(k, u)
  BY <1>15, SameIndex
<1>17. /\ \A x, y : getIndex(x, y)' = getIndex(x, y) /\ Size(y)' = Size(y)
       /\ \A x, y : Holds(x, y)' <=> Holds(x, y)
  BY DEF getIndex, Size, Holds
<1>18. IsChain(u[i])' /\ Current(u[i])' /\ \A n \in DOMAIN u[i] : getIndex(KeyOf(u[i][n]), u)' = i
  BY <1>11, <1>12 DEF IsTable, CurrentTable
<1>19. IsChain(new)'
  <2>1. ASSUME NEW m \in DOMAIN new PROVE Made(new[m])'
    <3>1. CASE m = 1
      BY <1>9, <1>14, <3>1
    <3>2. CASE m # 1
      BY <1>14, <1>18, <3>2 DEF IsChain
    <3> QED
      BY <3>1, <3>2
  <2>2. ASSUME NEW m \in DOMAIN u[i] PROVE u[i][m].e # e
    <3>1. Made(u[i][m])
      BY <1>12 DEF IsChain
    <3> QED
      BY <1>4, <3>1 DEF Made
  <2>3. ASSUME NEW m \in DOMAIN new, NEW n \in DOMAIN new, new[m].e = new[n].e PROVE m = n
    <3>1. CASE m = 1 \/ n = 1
      BY <1>9, <1>14, <2>2, <2>3, <3>1
    <3>2. CASE m # 1 /\ n # 1
      <4>1. /\ m - 1 \in DOMAIN u[i] /\ n - 1 \in DOMAIN u[i]
            /\ u[i][m - 1].e = u[i][n - 1].e
        BY <1>14, <2>3, <3>2
      <4>2. m - 1 = n - 1
        BY <1>12, <4>1 DEF IsChain
      <4> QED
        BY <1>14, <4>2
    <3> QED
      BY <3>1, <3>2
  <2> QED
    BY <1>14, <2>1, <2>3 DEF IsChain
<1>20. Current(new)' /\ \A m \in DOMAIN new : getIndex(KeyOf(new[m]), u)' = i
  <2>1. ASSUME NEW m \in DOMAIN new
        PROVE  /\ (Alive(new[m]) => map[KeyOf(new[m])] = new[m].e)'
               /\ getIndex(KeyOf(new[m]), u)' = i
    <3>1. CASE m = 1
      BY <1>7, <1>9, <1>14, <1>17, <1>i, <3>1
    <3>2. CASE m # 1
      BY <1>14, <1>18, <3>2 DEF Current
    <3> QED
      BY <3>1, <3>2
  <2> QED
    BY <2>1 DEF Current
<1>21. IsTable(w)' /\ CurrentTable(w)'
  <2>1. ASSUME NEW j \in DOMAIN w
        PROVE  /\ IsChain(w[j])' /\ Current(w[j])'
               /\ \A n \in DOMAIN w[j] : getIndex(KeyOf(w[j][n]), w)' = j
    <3>0. \A k : getIndex(k, w)' = getIndex(k, u)'
      BY <1>16, <1>17
    <3>1. CASE j = i
      BY <1>15, <1>19, <1>20, <3>0, <3>1
    <3>2. CASE j # i
      <4>1. j \in DOMAIN u /\ w[j] = u[j]
        BY <1>15, <3>2
      <4> QED
        BY <1>11, <3>0, <4>1 DEF IsTable, CurrentTable
    <3> QED
      BY <3>1, <3>2
  <2>2. HasSize(w)'
    BY <1>11, <1>15, <1>16, <1>17 DEF IsTable, HasSize
  <2> QED
    BY <2>1, <2>2 DEF IsTable, CurrentTable
<1>22. ASSUME NEW k \in Keys, map'[k] # 0 PROVE Holds(w[getIndex(k, w)], map'[k])
  <2>1. CASE k = key
    BY <1>7, <1>9, <1>14, <1>15, <1>16, <1>i, <2>1 DEF Holds
  <2>2. CASE k # key
    <3>1. map'[k] = map[k] /\ map[k] # 0
      BY <1>7, <1>22, <2>2
    <3>2. PICK a : a = getIndex(k, u)
      OBVIOUS
    <3>3. a \in DOMAIN u /\ Holds(u[a], map[k])
      BY <1>11, <3>1, <3>2, IndexIn DEF IsTable, HoldsMap
    <3>4. CASE a = i
      <4>1. PICK m \in DOMAIN u[i] : u[i][m].e = map[k] /\ u[i][m] \notin released
        BY <3>3, <3>4 DEF Holds
      <4>2. m + 1 \in DOMAIN new /\ new[m + 1] = u[i][m]
        BY <1>14
      <4>3. Holds(new, map[k])
        BY <4>1, <4>2 DEF Holds
      <4> QED
        BY <1>15, <1>16, <3>1, <3>2, <3>3, <3>4, <4>3
    <3>5. CASE a # i
      BY <1>15, <1>16, <3>1, <3>2, <3>3, <3>5
    <3> QED
      BY <3>4, <3>5
  <2> QED
    BY <2>1, <2>2
<1>23. HoldsMap'
  BY <1>17, <1>22, <1>w DEF HoldsMap, Holds, getIndex, Size
<1> QED
  BY <1>6, <1>8, <1>21, <1>23, <1>w

LEMMA PutKeepsTInv ==
    ASSUME TInv, NEW p \in Threads, Put(p) PROVE TInv'
<1>. PICK c : c = call[p]
  OBVIOUS
<1>1. /\ c.pc = "task" /\ lock = None /\ c.value \in Values /\ c.key \in Keys
      /\ CallsOK /\ EntriesOK
  BY DEF Put, TInv, CallsOK, CallOK, Keyless
<1>2. UNCHANGED <<lock, released, pending, queue, collected>>
  BY DEF Put
<1>3. PICK i : i = getIndex(c.key, table)
  OBVIOUS
<1>4. PICK found : found = findInChain(table[i], c.key)
  OBVIOUS
<1>5. found = Found(c)
  BY <1>3, <1>4 DEF Found
<1>6. PICK calls : calls = [call EXCEPT ![p] = Done(call[p], None)]
  OBVIOUS
<1>7. call' = Observed(calls)
  BY <1>6 DEF Put
<1>8. Ended(p, calls)
  BY <1>1, <1>6, DoneEnded
<1>9. CASE found = <<>>
  <2>1. Add(c.key, c.value)
    BY <1>5, <1>9 DEF Put
  <2>2. IsTable(table) /\ CurrentTable(table) /\ HoldsMap /\ map[c.key] = 0
    <3>1. IsTable(table) /\ CurrentTable(table) /\ HoldsMap
      BY <1>1, <1>3, <1>4, TaskFinds
    <3>2. map[c.key] = 0
      <4>1. PICK k \in Keys : k = c.key
        BY <1>1
      <4>2. i = getIndex(k, table) /\ found = findInChain(table[i], k)
        BY <1>3, <1>4, <4>1
      <4>3. map[k] = 0
        BY <1>1, <1>9, <4>2, TaskFinds, Zenon
      <4> QED
        BY <4>1, <4>3
    <3> QED
      BY <3>1, <3>2
  <2>3. Grows /\ EntriesOK' /\ IsTable(table)' /\ CurrentTable(table)' /\ HoldsMap'
    BY <1>1, <1>2, <2>1, <2>2, AddKeeps
  <2>4. /\ CallsOK'
        /\ \A q \in Threads : call'[q].pc \notin {"rebuild", "move"}
        /\ \A q \in Threads : call'[q].purge \subseteq call[q].purge
    BY <1>1, <1>7, <1>8, EndedCalls
  <2>5. PICK others : others = {}
    OBVIOUS
  <2>6. DeadQueued'
    BY <1>2, <2>3, <2>4, <2>5, DeadStays
  <2> QED
    BY <1>1, <1>2, <2>3, <2>4, <2>6, FreeKeepsTInv
<1>10. CASE found # <<>>
  <2>1. table' = table /\ map' = map
    BY <1>5, <1>10 DEF Put
  <2>2. Grows /\ MapFollows /\ MapShrinks /\ EntriesOK'
    <3>1. CASE c.op = "put"
      <4>1. PICK n \in DOMAIN table[i] :
               Head(found) = table[i][n] /\ Made(table[i][n])
        BY <1>1, <1>3, <1>4, <1>10, TaskFinds
      <4>2. SetValue(Head(found).e, c.value) /\ Head(found).e \in DOMAIN entries
        BY <1>5, <1>10, <3>1, <4>1 DEF Put, Made
      <4> QED
        BY <1>1, <1>2, <2>1, <4>2, SetValueKeeps
    <3>2. CASE c.op # "put"
      <4>1. entries' = entries
        BY <1>5, <1>10, <3>2 DEF Put
      <4> QED
        BY <1>1, <1>2, <2>1, <4>1, SameEntries
    <3> QED
      BY <3>1, <3>2
  <2> QED
    BY <1>1, <1>2, <1>7, <1>8, <2>1, <2>2, TaskKeepsTInv
<1> QED
  BY <1>9, <1>10

LEMMA RemoveKeepsTInv ==
    ASSUME TInv, NEW p \in Threads, Remove(p) PROVE TInv'
<1>. PICK c : c = call[p]
  OBVIOUS
<1>1. /\ c.pc = "task" /\ c.op = "remove" /\ lock = None /\ c.key \in Keys
      /\ CallsOK /\ EntriesOK /\ DOMAIN call = Threads /\ DOMAIN c = Fields
      /\ c.left \in 0 .. MaxCalls /\ c.value \in Values /\ c.resizing \in BOOLEAN
      /\ c.i = 0 /\ c.chain = <<>>
  BY DEF Remove, Enqueued, TInv, CallsOK, CallOK, Keyless, Resting
<1>2. /\ table' = table /\ lock' = lock /\ entries' = entries /\ pending' = pending
  BY DEF Remove, Enqueued
<1>3. PICK i : i = getIndex(c.key, table)
  OBVIOUS
<1>4. PICK found : found = findInChain(table[i], c.key)
  OBVIOUS
<1>5. found = Found(c)
  BY <1>3, <1>4 DEF Found
<1>6. CASE found # <<>> /\ AsExpected(c, Head(found))
  <2>1. PICK n \in DOMAIN table[i] :
           /\ Head(found) = table[i][n] /\ Made(table[i][n])
           /\ KeyOf(table[i][n]) = c.key /\ map[c.key] = table[i][n].e
    BY <1>1, <1>3, <1>4, <1>6, TaskFinds
  <2>2. IsTable(table) /\ CurrentTable(table) /\ HoldsMap /\ i \in DOMAIN table
    BY <1>1, <1>3, <1>4, TaskFinds
  <2>3. PICK r : r = table[i][n]
    OBVIOUS
  <2>4. /\ released' = released \cup {r} /\ queue' = queue \cup {r}
        /\ map' = [map EXCEPT ![c.key] = 0]
    BY <1>5, <1>6, <2>1, <2>3 DEF Remove, Enqueued
  <2>5. PICK x : call' = Observed([call EXCEPT ![p].pc = "poll", ![p].result = x])
    BY <1>5, <1>6 DEF Remove, Enqueued
  <2>6. PICK calls : calls = [call EXCEPT ![p] = [c EXCEPT !.pc = "poll", !.result = x]]
    OBVIOUS
  <2>7. call' = Observed(calls)
    BY <1>1, <2>5, <2>6
  <2>8. Ended(p, calls)
    BY <1>1, <2>6 DEF Ended, Fields
  <2>9. /\ CallsOK'
        /\ \A q \in Threads : call'[q].pc \notin {"rebuild", "move"}
        /\ \A q \in Threads : call'[q].purge \subseteq call[q].purge
    BY <1>1, <2>7, <2>8, EndedCalls
  <2>10. Grows
    <3>1. ASSUME NEW e \in DOMAIN entries PROVE entries[e].gen \in Nat
      <4>1. entries[e] \in Entry
        BY <1>1 DEF EntriesOK
      <4> QED
        BY <4>1 DEF Entry
    <3> QED
      BY <1>2, <2>4, <3>1 DEF Grows
  <2>11. DOMAIN map = Keys /\ map'[c.key] = 0 /\ \A k \in Keys : k # c.key => map'[k] = map[k]
    BY <1>1, <2>4 DEF EntriesOK
  <2>12. EntriesOK'
    <3>1. \A y \in released' : Made(y)'
      BY <1>1, <1>2, <2>1, <2>3, <2>4 DEF EntriesOK, Made
    <3>2. map' \in [Keys -> 0 .. Len(entries')]
      BY <1>1, <1>2, <2>4, LenProperties DEF EntriesOK
    <3> QED
      BY <1>1, <1>2, <2>11, <3>1, <3>2 DEF EntriesOK
  <2>13. PICK others : others = {r}
    OBVIOUS
  <2>14. DeadQueued'
    <3>1. \A y \in others : (Made(y) /\ ~Alive(y))'
      BY <1>2, <2>1, <2>3, <2>4, <2>13 DEF Made, Alive
    <3> QED
      BY <1>2, <2>4, <2>9, <2>10, <2>13, <3>1, DeadStays
  <2>15. IsTable(table)'
    <3>1. PICK u : u = table
      OBVIOUS
    <3> QED
      BY <1>1, <1>2, <2>2, <2>10, <3>1, TableStays
  <2>16. CurrentTable(table)'
    <3>. SUFFICES ASSUME NEW j \in DOMAIN table, NEW m \in DOMAIN table[j], NEW y, y = table[j][m], Alive(y)'
                  PROVE  map'[KeyOf(y)] = y.e
      BY <1>2 DEF CurrentTable, Current, KeyOf, Alive
    <3>1. Alive(y) /\ y # r
      BY <1>2, <2>4 DEF Alive
    <3>2. map[KeyOf(y)] = y.e /\ Made(y) /\ getIndex(KeyOf(y), table) = j
      BY <2>2, <3>1 DEF CurrentTable, Current, IsTable, IsChain
    <3>3. KeyOf(y) # c.key
      <4>. SUFFICES ASSUME KeyOf(y) = c.key PROVE FALSE
        OBVIOUS
      <4>1. j = i /\ y.e = r.e
        BY <1>3, <2>1, <2>3, <3>2
      <4>2. m = n
        BY <2>2, <2>3, <4>1 DEF IsTable, IsChain
      <4> QED
        BY <2>3, <3>1, <4>1, <4>2
    <3>4. KeyOf(y) \in Keys
      BY <1>1, <2>10, <3>2, MadeStays
    <3> QED
      BY <2>11, <3>2, <3>3, <3>4
  <2>17. HoldsMap'
    <3>. SUFFICES ASSUME NEW k \in Keys, map'[k] # 0
                  PROVE  Holds(table[getIndex(k, table)], map[k])'
      BY DEF HoldsMap
    <3>1. k # c.key /\ map'[k] = map[k] /\ map[k] # 0
      BY <2>11
    <3>2. PICK chain : chain = table[getIndex(k, table)]
      OBVIOUS
    <3>3. PICK m \in DOMAIN chain : chain[m].e = map[k] /\ chain[m] \notin released
      BY <2>2, <3>1, <3>2 DEF HoldsMap, Holds
    <3>4. entries[map[k]].key = k
      BY <1>1, <3>1 DEF EntriesOK
    <3>5. chain[m] # r
      BY <2>1, <2>3, <3>1, <3>3, <3>4 DEF KeyOf
    <3>6. Holds(chain, map[k])'
      BY <2>4, <3>1, <3>3, <3>5 DEF Holds
    <3> QED
      BY <1>2, <3>1, <3>2, <3>6 DEF Holds, getIndex, Size
  <2> QED
    BY <1>1, <1>2, <2>9, <2>12, <2>14, <2>15, <2>16, <2>17, FreeKeepsTInv
<1>7. CASE ~(found # <<>> /\ AsExpected(c, Head(found)))
  <2>1. /\ released' = released /\ queue' = queue /\ map' = map
        /\ call' = [call EXCEPT ![p].pc = "poll"]
    BY <1>5, <1>7 DEF Remove, Enqueued
  <2>2. PICK calls : calls = [call EXCEPT ![p] = [c EXCEPT !.pc = "poll"]]
    OBVIOUS
  <2>3. call' = calls
    BY <1>1, <2>1, <2>2
  <2>4. Ended(p, calls)
    BY <1>1, <2>2 DEF Ended, Fields
  <2>5. Grows /\ MapFollows /\ MapShrinks /\ EntriesOK'
    BY <1>1, <1>2, <2>1, SameEntries
  <2> QED
    BY <1>1, <1>2, <2>1, <2>3, <2>4, <2>5, TaskKeepsTInv
<1> QED
  BY <1>6, <1>7

LEMMA ClearKeepsTInv ==
    ASSUME TInv, NEW p \in Threads, Clear(p) PROVE TInv'
<1>1. /\ lock = None /\ CallsOK /\ EntriesOK /\ lock' = lock
      /\ released' = released /\ pending' = pending /\ queue' = queue /\ entries' = entries
      /\ map' = [k \in Keys |-> 0]
      /\ table' = createReferenceArray(InitialSize)
  BY DEF Clear, TInv
<1>2. PICK calls : calls = [call EXCEPT ![p] = Done(call[p], None)]
  OBVIOUS
<1>3. call' = Observed(Replaced(calls)) /\ Ended(p, calls)
  BY <1>1, <1>2, DoneEnded DEF Clear
<1>4. /\ CallsOK'
      /\ \A q \in Threads : call'[q].pc \notin {"rebuild", "move"}
      /\ \A q \in Threads : call'[q].purge \subseteq call[q].purge
  BY <1>1, <1>3, EndedCalls
<1>5. Grows
  <2>1. ASSUME NEW e \in DOMAIN entries PROVE entries[e].gen \in Nat
    <3>1. entries[e] \in Entry
      BY <1>1 DEF EntriesOK
    <3> QED
      BY <3>1 DEF Entry
  <2> QED
    BY <1>1, <2>1 DEF Grows
<1>6. EntriesOK'
  <2>1. map' \in [Keys -> 0 .. Len(entries')]
    BY <1>1, LenProperties DEF EntriesOK
  <2> QED
    BY <1>1, <2>1 DEF EntriesOK, Made
<1>7. PICK others : others = {}
  OBVIOUS
<1>8. DeadQueued'
  BY <1>1, <1>4, <1>5, <1>7, DeadStays
<1>9. PICK w : w = createReferenceArray(InitialSize)
  OBVIOUS
<1>10. IsTable(w) /\ \A i \in DOMAIN w : w[i] = <<>>
  BY <1>9, SizeAssumption, EmptyTable
<1>11. IsTable(w)'
  BY <1>1, <1>5, <1>10, TableStays
<1>12. CurrentTable(w)'
  BY <1>10 DEF CurrentTable, Current
<1>13. HoldsMap'
  BY <1>1 DEF HoldsMap
<1> QED
  BY <1>1, <1>4, <1>6, <1>8, <1>9, <1>11, <1>12, <1>13, FreeKeepsTInv

------------------------------------------------------------------------------
(* The table is the map.                                                   *)

LEMMA InitTInv == Init => TInv
<1>. SUFFICES ASSUME Init PROVE TInv
  OBVIOUS
<1>1. /\ entries = <<>> /\ released = {} /\ pending = {} /\ queue = {} /\ lock = None
      /\ map = [k \in Keys |-> 0] /\ call = [p \in Threads |-> Idle]
      /\ table = createReferenceArray(InitialSize)
  BY DEF Init
<1>2. EntriesOK
  BY <1>1, EmptySeq DEF EntriesOK
<1>3. DeadQueued
  BY <1>1, IdleFields DEF DeadQueued
<1>4. CallsOK
  <2>1. Idle.left \in 0 .. MaxCalls /\ Idle.value \in Values /\ Idle.pc = "idle"
        /\ DOMAIN Idle = Fields /\ Idle.i = 0 /\ Idle.chain = <<>>
    BY IdleFields, CallAssumption DEF Values
  <2>2. Idle.resizing \in BOOLEAN
    BY IdleFields
  <2> QED
    BY <1>1, <2>1, <2>2 DEF CallsOK, CallOK
<1>5. \A p \in Threads : lock # p /\ call[p].pc = "idle"
  BY <1>1, IdleFields, KeyAssumption
<1>6. LocksOK
  BY <1>1, <1>5 DEF LocksOK
<1>7. TableOK
  <2>1. IsTable(table) /\ CurrentTable(table)
    BY <1>1, SizeAssumption, EmptyTable
  <2> QED
    BY <1>1, <2>1 DEF TableOK, HoldsMap
<1> QED
  BY <1>2, <1>3, <1>4, <1>5, <1>6, <1>7 DEF TInv

LEMMA NextTInv == TInv /\ [Next]_vars => TInv'
<1>. SUFFICES ASSUME TInv, [Next]_vars PROVE TInv'
  OBVIOUS
<1>1. ASSUME NEW p \in Threads, Begin(p) PROVE TInv'
  BY <1>1, BeginKeepsTInv
<1>2. ASSUME NEW p \in Threads, Restructure(p) PROVE TInv'
  BY <1>2, PollKeepsTInv, LockKeepsTInv, DetachKeepsTInv, TestKeepsTInv, MoveKeepsTInv,
     PublishKeepsTInv DEF Restructure
<1>3. ASSUME NEW p \in Threads, Check(p) PROVE TInv'
  BY <1>3, CheckKeepsTInv
<1>4. ASSUME NEW p \in Threads, doTask(p) PROVE TInv'
  BY <1>4, PutKeepsTInv, ReplaceKeepsTInv, RemoveKeepsTInv, ClearKeepsTInv DEF doTask
<1>5. ASSUME NEW p \in Threads, getReference(p) PROVE TInv'
  BY <1>5, ReadHeadKeepsTInv, FindKeepsTInv, ValueKeepsTInv DEF getReference
<1>6. ASSUME NEW p \in Threads, Iterate(p) PROVE TInv'
  BY <1>6, IterateKeepsTInv
<1>7. ASSUME NEW e \in DOMAIN entries, Collect(e) PROVE TInv'
  BY <1>7, CollectKeepsTInv
<1>8. ASSUME NEW r \in pending, Enqueue(r) PROVE TInv'
  BY <1>8, EnqueueKeepsTInv
<1>9. CASE UNCHANGED vars
  BY <1>9, StillKeepsTInv DEF vars, Quiet
<1> QED
  BY <1>1, <1>2, <1>3, <1>4, <1>5, <1>6, <1>7, <1>8, <1>9 DEF Next, Step, AllReturned

LEMMA TableIsMapHolds == TInv => TableIsMap
<1>. SUFFICES ASSUME TInv, lock = None, NEW k \in Keys, NEW i \in DOMAIN table
              PROVE  IF i = getIndex(k, table) /\ map[k] # 0
                     THEN \E n \in DOMAIN table[i] : Hits(table[i], k) = {n} /\ table[i][n].e = map[k]
                     ELSE Hits(table[i], k) = {}
  BY DEF TableIsMap
<1>1. IsTable(table) /\ CurrentTable(table) /\ HoldsMap /\ EntriesOK
  BY KeyAssumption DEF TInv, TableOK
<1>2. PICK chain : chain = table[i]
  OBVIOUS
<1>3. IsChain(chain) /\ Current(chain) /\ \A n \in DOMAIN chain : getIndex(KeyOf(chain[n]), table) = i
  BY <1>1, <1>2 DEF IsTable, CurrentTable
<1>4. ASSUME NEW n \in Hits(chain, k)
      PROVE  n \in DOMAIN chain /\ i = getIndex(k, table) /\ map[k] = chain[n].e /\ map[k] # 0
  <2>1. n \in DOMAIN chain /\ Alive(chain[n]) /\ KeyOf(chain[n]) = k
    BY DEF Hits, KeyOf
  <2>2. chain[n].e \in DOMAIN entries
    BY <1>3, <2>1 DEF IsChain, Made
  <2>3. chain[n].e # 0
    BY <1>1, <2>2, LenProperties DEF EntriesOK
  <2> QED
    BY <1>3, <2>1, <2>3 DEF Current
<1>5. CASE i = getIndex(k, table) /\ map[k] # 0
  <2>1. PICK n \in DOMAIN chain : chain[n].e = map[k] /\ chain[n] \notin released
    BY <1>1, <1>2, <1>5 DEF HoldsMap, Holds
  <2>2. entries[map[k]].key = k /\ ~entries[map[k]].collected
    BY <1>1, <1>5 DEF EntriesOK
  <2>3. n \in Hits(chain, k)
    BY <2>1, <2>2 DEF Hits, Alive
  <2>4. \A m \in Hits(chain, k) : m = n
    BY <1>3, <1>4, <2>1 DEF IsChain
  <2>5. Hits(chain, k) = {n}
    BY <2>3, <2>4
  <2> QED
    BY <1>2, <1>5, <2>1, <2>5
<1>6. CASE ~(i = getIndex(k, table) /\ map[k] # 0)
  BY <1>2, <1>4, <1>6
<1> QED
  BY <1>5, <1>6

LEMMA TInvHolds == Spec => []TInv
BY InitTInv, NextTInv, PTL DEF Spec

\* While nobody holds the lock of the segment the table says what the map is,
\* whatever was put, replaced, removed, purged, moved, cleared or collected.
THEOREM TheTableIsTheMap == Spec => []TableIsMap
BY TInvHolds, TableIsMapHolds, PTL

------------------------------------------------------------------------------
(* The invariant of the calls.                                             *)

\* No two references of a chain that were not cleared are of the same key.
AliveOnce(chain) ==
    \A m, n \in DOMAIN chain :
       Alive(chain[m]) /\ Alive(chain[n]) /\ KeyOf(chain[m]) = KeyOf(chain[n]) => m = n

\* A table that is, or has been, that of the segment.
WasTable(t) == IsTable(t) /\ \A i \in DOMAIN t : AliveOnce(t[i])

\* The calls that restructure, wait for it, or are about to.
Restructuring == {"poll", "lock", "rebuild", "move"}

\* What a call has seen are values of its key, the present one among them.
SeesOK(c) ==
    /\ c.pc # "idle" /\ Asks(c.op) => ValueOf(map, entries, c.key) \in c.seen
    /\ c.result # None => c.result \in c.seen

\* What a reader can still find in its chain it has seen; a reference that was not
\* cleared is the map's, unless the key has been without a value meanwhile.
SeesChain(c) ==
    \A n \in DOMAIN c.chain :
       Alive(c.chain[n]) /\ KeyOf(c.chain[n]) = c.key =>
          /\ entries[c.chain[n].e].value \in c.seen
          /\ None \in c.seen \/ map[c.key] = c.chain[n].e

ReadsOK(c) ==
    /\ c.pc \in {"head", "find", "value"} => c.op = "get"
    /\ c.pc \in {"find", "value"} => IsChain(c.chain) /\ SeesChain(c)
    /\ c.pc = "find" => None \in c.seen \/ c.excused \/ Hits(c.chain, c.key) # {}
    /\ c.pc = "value" => /\ DOMAIN c.chain = {1} /\ KeyOf(c.chain[1]) = c.key
                         /\ None \in c.seen \/ Alive(c.chain[1])

\* A call that returns nothing has a reason.
HasReason(c) ==
    /\ Missed(c) => c.excused
    /\ c.op = "remove" /\ c.pc \in Restructuring /\ c.result = None =>
          None \in c.seen \/ (c.expect # None /\ \E v \in c.seen : v # c.expect)

\* An iterator over t gives the keys of one chain after the other.
Iterating(c, t) ==
    /\ c.i \in 0 .. Size(t) /\ IsChain(c.chain) /\ AliveOnce(c.chain)
    /\ \A n \in DOMAIN c.chain : getIndex(KeyOf(c.chain[n]), t) = c.i - 1
    /\ c.yielded \in Seq(Keys)
    /\ \A y \in DOMAIN c.yielded :
          /\ getIndex(c.yielded[y], t) < c.i
          /\ \A n \in DOMAIN c.chain : Alive(c.chain[n]) => KeyOf(c.chain[n]) # c.yielded[y]
    /\ \A x, y \in DOMAIN c.yielded : c.yielded[x] = c.yielded[y] => x = y

IteratesOK(c) ==
    /\ c.fresh \in BOOLEAN
    /\ ~c.fresh => WasTable(c.frozen)
    /\ c.pc # "iterate" => c.fresh /\ c.yielded = <<>>
    /\ c.pc \in {"table", "iterate"} => c.op = "iterate"
    /\ c.pc = "iterate" => Iterating(c, View(c))

CallInv(c) == SeesOK(c) /\ ReadsOK(c) /\ HasReason(c) /\ IteratesOK(c)

CInv == \A p \in Threads : CallInv(call[p])

------------------------------------------------------------------------------
(* A thread that looks on while others work.                               *)

LEMMA TableWas ==
    ASSUME EntriesOK, NEW t, IsTable(t), CurrentTable(t)
    PROVE  WasTable(t)
<1>1. ASSUME NEW i \in DOMAIN t PROVE AliveOnce(t[i])
  BY DEF AliveOnce, IsTable, CurrentTable, IsChain, Current
<1> QED
  BY <1>1 DEF WasTable

LEMMA OnceStays ==
    ASSUME EntriesOK, Grows, NEW chain, IsChain(chain), AliveOnce(chain)
    PROVE  AliveOnce(chain)'
<1>1. ASSUME NEW n \in DOMAIN chain
      PROVE  KeyOf(chain[n])' = KeyOf(chain[n]) /\ (Alive(chain[n])' => Alive(chain[n]))
  <2>1. PICK r : r = chain[n]
    OBVIOUS
  <2>2. KeyOf(r)' = KeyOf(r) /\ (Alive(r)' => Alive(r))
    BY <2>1, MadeStays DEF IsChain
  <2> QED
    BY <2>1, <2>2
<1> QED
  BY <1>1 DEF AliveOnce

LEMMA WasStays ==
    ASSUME EntriesOK, Grows, NEW t, WasTable(t)
    PROVE  WasTable(t)'
<1>1. IsTable(t) /\ IsTable(t)'
  BY TableStays DEF WasTable
<1>2. ASSUME NEW i \in DOMAIN t PROVE AliveOnce(t[i])'
  <2>1. PICK chain : chain = t[i]
    OBVIOUS
  <2>2. IsChain(chain) /\ AliveOnce(chain)
    BY <1>1, <2>1 DEF IsTable, WasTable
  <2> QED
    BY <2>1, <2>2, OnceStays
<1> QED
  BY <1>1, <1>2 DEF WasTable

\* An iterator goes on with its chain, whatever happens to the table it is from,
\* as long as it keeps its size.
LEMMA IteratingStays ==
    ASSUME EntriesOK, Grows, NEW c, NEW t, NEW u, DOMAIN u = DOMAIN t, Iterating(c, t)
    PROVE  Iterating(c, u)'
<1>1. PICK chain : chain = c.chain
  OBVIOUS
<1>2. /\ c.i \in 0 .. Size(t) /\ IsChain(chain) /\ AliveOnce(chain)
      /\ \A n \in DOMAIN chain : getIndex(KeyOf(chain[n]), t) = c.i - 1
      /\ c.yielded \in Seq(Keys)
      /\ \A y \in DOMAIN c.yielded :
            /\ getIndex(c.yielded[y], t) < c.i
            /\ \A n \in DOMAIN chain : Alive(chain[n]) => KeyOf(chain[n]) # c.yielded[y]
      /\ \A x, y \in DOMAIN c.yielded : c.yielded[x] = c.yielded[y] => x = y
  BY <1>1 DEF Iterating
<1>3. IsChain(chain)' /\ AliveOnce(chain)'
  BY <1>2, ChainStays, OnceStays
<1>4. Size(u)' = Size(t) /\ \A k : getIndex(k, u)' = getIndex(k, t)
  BY SameIndex DEF Size, getIndex
<1>5. ASSUME NEW n \in DOMAIN chain
      PROVE  KeyOf(chain[n])' = KeyOf(chain[n]) /\ (Alive(chain[n])' => Alive(chain[n]))
  <2>1. PICK r : r = chain[n]
    OBVIOUS
  <2>2. KeyOf(r)' = KeyOf(r) /\ (Alive(r)' => Alive(r))
    BY <1>2, <2>1, MadeStays DEF IsChain
  <2> QED
    BY <2>1, <2>2
<1>6. ASSUME NEW n \in DOMAIN chain PROVE getIndex(KeyOf(chain[n]), u)' = c.i - 1
  <2>1. getIndex(KeyOf(chain[n]), u)' = getIndex(KeyOf(chain[n])', t)
    BY <1>4 DEF getIndex, Size
  <2> QED
    BY <1>2, <1>5, <2>1
<1> QED
  BY <1>1, <1>2, <1>3, <1>4, <1>5, <1>6 DEF Iterating

\* Whatever a step does: what is cleared is not the map's any more, an entry that is
\* changed is the map's, and no entry takes the place of another in one step.
Steady ==
    /\ Grows
    /\ \A r : Made(r) /\ Alive(r) /\ ~Alive(r)' => map'[KeyOf(r)] = 0 \/ map[KeyOf(r)] # r.e
    /\ \A e \in DOMAIN entries :
          entries'[e].value = entries[e].value \/ map'[entries[e].key] = e
    /\ \A k \in Keys : map'[k] = map[k] \/ map'[k] = 0 \/ map[k] = 0

\* The call c becomes d without reading or writing anything for its caller.
Watches(c, d) ==
    /\ d.op = c.op /\ d.key = c.key /\ d.expect = c.expect /\ d.result = c.result
    /\ d.excused = c.excused /\ d.yielded = c.yielded
    /\ \/ d.pc = c.pc /\ d.i = c.i /\ d.chain = c.chain
       \/ c.pc \in Restructuring /\ d.pc \in Restructuring
    /\ c.seen \subseteq d.seen
    /\ c.pc = "idle" => d.seen = c.seen
    /\ c.pc # "idle" /\ Asks(c.op) => ValueOf(map, entries, c.key)' \in d.seen
    /\ d.fresh \in BOOLEAN
    /\ \/ d.fresh = c.fresh /\ d.frozen = c.frozen
          /\ (c.pc = "iterate" /\ c.fresh => DOMAIN table' = DOMAIN table)
       \/ c.pc = "iterate" /\ c.fresh /\ ~d.fresh /\ d.frozen = table

LEMMA WatchingIterates ==
    ASSUME EntriesOK, Grows, IsTable(table), CurrentTable(table),
           NEW c, NEW d, Watches(c, d), IteratesOK(c)
    PROVE  IteratesOK(d)'
<1>1. ~d.fresh => WasTable(d.frozen)
  BY TableWas DEF Watches, IteratesOK
<1>2. ~d.fresh => WasTable(d.frozen)'
  <2>1. PICK t : t = d.frozen
    OBVIOUS
  <2>2. WasTable(t) => WasTable(t)'
    BY WasStays
  <2> QED
    BY <1>1, <2>1, <2>2
<1>3. ASSUME d.pc = "iterate" PROVE Iterating(d, View(d))'
  <2>1. c.pc = "iterate" /\ d.i = c.i /\ d.chain = c.chain
    BY <1>3 DEF Watches, Restructuring
  <2>2. PICK t : t = View(c)
    OBVIOUS
  <2>3. PICK u : u = View(d)'
    OBVIOUS
  <2>4. DOMAIN u = DOMAIN t
    BY <2>1, <2>2, <2>3 DEF Watches, View
  <2>5. Iterating(c, t)
    BY <2>1, <2>2 DEF IteratesOK
  <2>6. Iterating(c, u)'
    BY <2>4, <2>5, IteratingStays
  <2>7. Iterating(d, u)'
    BY <2>1, <2>6 DEF Iterating, Watches
  <2> QED
    BY <2>3, <2>7
<1>4. d.pc # "iterate" => d.fresh /\ d.yielded = <<>>
  BY DEF Watches, IteratesOK, Restructuring
<1>5. d.pc \in {"table", "iterate"} => d.op = "iterate"
  BY DEF Watches, IteratesOK, Restructuring
<1> QED
  BY <1>2, <1>3, <1>4, <1>5 DEF IteratesOK, Watches

LEMMA WatchingSees ==
    ASSUME NEW c, NEW d, Watches(c, d), SeesOK(c), HasReason(c)
    PROVE  SeesOK(d)' /\ HasReason(d)'
<1>1. SeesOK(d)'
  BY DEF SeesOK, Watches, Asks, ValueOf, Restructuring
<1>2. Missed(d)' => d.excused
  BY DEF HasReason, Missed, Watches, Restructuring
<1>3. ASSUME d.op = "remove", d.pc \in Restructuring, d.result = None
      PROVE  None \in d.seen \/ (d.expect # None /\ \E v \in d.seen : v # d.expect)
  BY <1>3 DEF HasReason, Watches, Restructuring
<1> QED
  BY <1>1, <1>2, <1>3 DEF HasReason

\* What is known of a reference to a reader's key stays so.
LEMMA WatchedReference ==
    ASSUME EntriesOK, EntriesOK', Steady, NEW c, NEW d, Watches(c, d), SeesOK(c),
           c.pc # "idle", c.op = "get", c.key \in Keys, NEW r, Made(r), KeyOf(r) = c.key,
           Alive(r) => /\ entries[r.e].value \in c.seen
                       /\ None \in c.seen \/ map[c.key] = r.e
    PROVE  /\ Alive(r)' => /\ entries'[r.e].value \in d.seen
                           /\ None \in d.seen \/ map'[c.key] = r.e
           /\ Alive(r) /\ ~Alive(r)' => None \in d.seen
<1>1. /\ c.seen \subseteq d.seen
      /\ ValueOf(map, entries, c.key) \in c.seen
      /\ ValueOf(map', entries', c.key) \in d.seen
  BY DEF Watches, SeesOK, Asks, ValueOf
<1>2. map'[c.key] = 0 => None \in d.seen
  BY <1>1 DEF ValueOf
<1>3. map[c.key] = 0 => None \in d.seen
  BY <1>1 DEF ValueOf
<1>4. r.e \in DOMAIN entries /\ entries[r.e].key = c.key /\ r.e # 0
  BY LenProperties DEF Made, KeyOf, EntriesOK
<1>5. Alive(r)' => Alive(r)
  BY MadeStays DEF Steady
<1>6. ASSUME Alive(r)' PROVE entries'[r.e].value \in d.seen
  <2>1. CASE entries'[r.e].value = entries[r.e].value
    BY <1>1, <1>5, <1>6, <2>1
  <2>2. CASE map'[c.key] = r.e
    BY <1>1, <1>4, <2>2 DEF ValueOf
  <2> QED
    BY <1>4, <2>1, <2>2 DEF Steady
<1>7. ASSUME Alive(r)' PROVE None \in d.seen \/ map'[c.key] = r.e
  <2>1. None \in c.seen \/ map[c.key] = r.e
    BY <1>5, <1>7
  <2>2. map'[c.key] = map[c.key] \/ map'[c.key] = 0 \/ map[c.key] = 0
    BY DEF Steady
  <2> QED
    BY <1>1, <1>2, <1>3, <2>1, <2>2
<1>8. ASSUME Alive(r), ~Alive(r)' PROVE None \in d.seen
  BY <1>1, <1>2, <1>8 DEF Steady
<1> QED
  BY <1>6, <1>7, <1>8

LEMMA WatchingReads ==
    ASSUME EntriesOK, EntriesOK', Steady, NEW c, NEW d, Watches(c, d), SeesOK(c), ReadsOK(c),
           c.pc # "idle" /\ c.op \notin Keyless => c.key \in Keys
    PROVE  ReadsOK(d)'
<1>. SUFFICES ASSUME d.pc \in {"head", "find", "value"} PROVE ReadsOK(d)'
  BY DEF ReadsOK
<1>1. /\ d.pc = c.pc /\ d.chain = c.chain /\ d.op = c.op /\ d.key = c.key
      /\ c.seen \subseteq d.seen
  BY DEF Watches, Restructuring
<1>e. d.excused = c.excused
  BY DEF Watches
<1>2. c.op = "get" /\ c.key \in Keys /\ c.pc # "idle"
  BY <1>1 DEF ReadsOK, Keyless
<1>3. PICK chain : chain = c.chain
  OBVIOUS
<1>4. PICK key : key = c.key
  OBVIOUS
<1>5. ASSUME c.pc \in {"find", "value"}
      PROVE  /\ IsChain(chain) /\ IsChain(chain)'
             /\ \A n \in DOMAIN chain : KeyOf(chain[n])' = KeyOf(chain[n])
             /\ \A n \in DOMAIN chain : KeyOf(chain[n]) = key =>
                   /\ Alive(chain[n])' => /\ entries'[chain[n].e].value \in d.seen
                                          /\ None \in d.seen \/ map'[key] = chain[n].e
                   /\ Alive(chain[n]) /\ ~Alive(chain[n])' => None \in d.seen
  <2>1. IsChain(chain) /\ SeesChain(c)
    BY <1>3, <1>5 DEF ReadsOK
  <2>2. IsChain(chain)'
    BY <2>1, ChainStays DEF Steady
  <2>3. ASSUME NEW n \in DOMAIN chain
        PROVE  /\ KeyOf(chain[n])' = KeyOf(chain[n])
               /\ KeyOf(chain[n]) = key =>
                   /\ Alive(chain[n])' => /\ entries'[chain[n].e].value \in d.seen
                                          /\ None \in d.seen \/ map'[key] = chain[n].e
                   /\ Alive(chain[n]) /\ ~Alive(chain[n])' => None \in d.seen
    <3>1. PICK r : r = chain[n]
      OBVIOUS
    <3>2. Made(r) /\ KeyOf(r)' = KeyOf(r)
      BY <2>1, <3>1, MadeStays DEF IsChain, Steady
    <3>3. Alive(r) /\ KeyOf(r) = c.key => /\ entries[r.e].value \in c.seen
                                          /\ None \in c.seen \/ map[c.key] = r.e
      BY <1>3, <2>1, <3>1 DEF SeesChain
    <3>4. KeyOf(r) = c.key =>
             /\ Alive(r)' => /\ entries'[r.e].value \in d.seen
                             /\ None \in d.seen \/ map'[c.key] = r.e
             /\ Alive(r) /\ ~Alive(r)' => None \in d.seen
      BY <1>2, <3>2, <3>3, WatchedReference
    <3> QED
      BY <1>4, <3>1, <3>2, <3>4
  <2> QED
    BY <2>1, <2>2, <2>3
<1>6. ASSUME c.pc \in {"find", "value"} PROVE (IsChain(d.chain) /\ SeesChain(d))'
  BY <1>1, <1>3, <1>4, <1>5, <1>6 DEF SeesChain
<1>7. ASSUME c.pc = "find" PROVE (None \in d.seen \/ d.excused \/ Hits(d.chain, d.key) # {})'
  <2>1. CASE None \in c.seen
    BY <1>1, <2>1
  <2>2. CASE c.excused
    BY <1>e, <2>2
  <2>3. CASE Hits(c.chain, c.key) # {}
    <3>1. PICK n \in DOMAIN chain : Alive(chain[n]) /\ KeyOf(chain[n]) = key
      BY <1>3, <1>4, <2>3 DEF Hits, KeyOf
    <3>2. None \in d.seen \/ (Alive(chain[n])' /\ KeyOf(chain[n])' = key)
      BY <1>5, <1>7, <3>1
    <3>3. None \in d.seen \/ n \in Hits(chain, key)'
      BY <3>2 DEF Hits, KeyOf
    <3> QED
      BY <1>1, <1>3, <1>4, <3>3
  <2> QED
    BY <1>7, <2>1, <2>2, <2>3 DEF ReadsOK
<1>8. ASSUME c.pc = "value"
      PROVE  /\ DOMAIN d.chain = {1} /\ KeyOf(d.chain[1])' = d.key
             /\ None \in d.seen \/ Alive(d.chain[1])'
  <2>1. DOMAIN chain = {1} /\ KeyOf(chain[1]) = key /\ (None \in c.seen \/ Alive(chain[1]))
    BY <1>3, <1>4, <1>8 DEF ReadsOK
  <2>2. KeyOf(chain[1])' = key /\ (None \in d.seen \/ Alive(chain[1])')
    BY <1>1, <1>5, <1>8, <2>1
  <2> QED
    BY <1>1, <1>3, <1>4, <2>1, <2>2
<1> QED
  BY <1>1, <1>2, <1>6, <1>7, <1>8 DEF ReadsOK
LEMMA WatchingKeeps ==
    ASSUME TInv, TInv', Steady, NEW q \in Threads, CallInv(call[q]), Watches(call[q], call'[q])
    PROVE  CallInv(call[q])'
<1>. PICK c : c = call[q]
  OBVIOUS
<1>. PICK d : d = call'[q]
  OBVIOUS
<1>1. /\ EntriesOK /\ EntriesOK' /\ IsTable(table) /\ CurrentTable(table) /\ Grows
      /\ c.pc # "idle" /\ c.op \notin Keyless => c.key \in Keys
  BY DEF TInv, TableOK, CallsOK, CallOK, Steady
<1>2. SeesOK(c) /\ ReadsOK(c) /\ HasReason(c) /\ IteratesOK(c) /\ Watches(c, d)
  BY DEF CallInv
<1>3. SeesOK(d)' /\ HasReason(d)'
  BY <1>2, WatchingSees
<1>4. ReadsOK(d)'
  BY <1>1, <1>2, WatchingReads
<1>5. IteratesOK(d)'
  BY <1>1, <1>2, WatchingIterates
<1> QED
  BY <1>3, <1>4, <1>5 DEF CallInv

\* Only p does something, the other calls look on.
LEMMA OthersWatch ==
    ASSUME TInv, TInv', CInv, Steady, NEW p \in Threads, CallInv(call[p])',
           \A q \in Threads \ {p} : Watches(call[q], call'[q])
    PROVE  CInv'
<1>1. ASSUME NEW q \in Threads PROVE CallInv(call[q])'
  <2>1. CASE q = p
    BY <2>1
  <2>2. CASE q # p
    BY <2>2, WatchingKeeps DEF CInv
  <2> QED
    BY <2>1, <2>2
<1> QED
  BY <1>1 DEF CInv

\* No key has another value.
ValuesStay == map' = map /\ \A e \in DOMAIN entries : entries'[e].value = entries[e].value

\* And the table keeps its size.
Still == ValuesStay /\ DOMAIN table' = DOMAIN table

LEMMA SameValues ==
    ASSUME TInv, ValuesStay, NEW k \in Keys
    PROVE  ValueOf(map, entries, k)' = ValueOf(map, entries, k)
<1>1. map[k] # 0 => map[k] \in DOMAIN entries
  BY LenProperties DEF TInv, EntriesOK
<1> QED
  BY <1>1 DEF ValuesStay, ValueOf

LEMMA SameSeen ==
    ASSUME TInv, CInv, ValuesStay, NEW q \in Threads, NEW c, c = call[q]
    PROVE  c.pc # "idle" /\ Asks(c.op) => ValueOf(map, entries, c.key)' \in c.seen
<1>1. SeesOK(c) /\ (c.pc # "idle" /\ c.op \notin Keyless => c.key \in Keys)
  BY DEF TInv, CallsOK, CallOK, CInv, CallInv
<1> QED
  BY <1>1, SameValues DEF SeesOK, Asks, Keyless

LEMMA StillWatches ==
    ASSUME TInv, CInv, NEW q \in Threads, Still, call'[q] = call[q]
    PROVE  Watches(call[q], call'[q])
<1>. PICK c : c = call[q]
  OBVIOUS
<1>1. c.fresh \in BOOLEAN
  BY DEF CInv, CallInv, IteratesOK
<1>2. c.pc # "idle" /\ Asks(c.op) => ValueOf(map, entries, c.key)' \in c.seen
  BY SameSeen DEF Still
<1> QED
  BY <1>1, <1>2 DEF Watches, Still

LEMMA StillKeepsCInv ==
    ASSUME TInv, TInv', CInv, Still, Steady, NEW p \in Threads, CallInv(call[p])',
           \A q \in Threads \ {p} : call'[q] = call[q]
    PROVE  CInv'
BY StillWatches, OthersWatch

LEMMA SameSteady ==
    ASSUME TInv, entries' = entries, released' = released, map' = map
    PROVE  Steady
<1>1. Grows
  BY SameEntries DEF TInv
<1>2. \A r : Alive(r)' = Alive(r)
  BY DEF Alive
<1> QED
  BY <1>1, <1>2 DEF Steady

LEMMA DoneFresh == ASSUME NEW c, NEW x PROVE Done(c, x).fresh = TRUE
BY IdleFields DEF Done

\* The call c ends, if what it returns is as it should be.
LEMMA DoneSound ==
    ASSUME NEW c, NEW x, NEW d, d = Done(c, x),
           Asks(c.op) /\ x # None => x \in c.seen,
           Asks(c.op) /\ x = None => \/ None \in c.seen
                                     \/ c.expect # None /\ c.seen # {c.expect}
                                     \/ c.excused
    PROVE  CallInv(d)'
<1>1. d.pc = "idle" /\ d.yielded = <<>>
  BY DoneFields
<1>2. d.fresh = TRUE
  BY DoneFresh
<1>3. /\ Asks(c.op) => /\ d.op = c.op /\ d.expect = c.expect /\ d.result = x
                       /\ d.seen = c.seen
      /\ ~Asks(c.op) => d.op = "purge" /\ d.result = None
  BY DoneAsks
<1>e. Asks(c.op) => d.excused = c.excused
  BY DoneAsks
<1>4. SeesOK(d)' /\ ReadsOK(d)'
  BY <1>1, <1>3 DEF SeesOK, ReadsOK
<1>5. Missed(d) => d.excused
  <2>1. ASSUME Missed(d) PROVE Asks(c.op) /\ c.excused
    BY <1>3, <2>1 DEF Missed, Asks
  <2> QED
    BY <1>e, <2>1
<1>6. HasReason(d)'
  BY <1>1, <1>5 DEF HasReason, Restructuring, Missed
<1>7. IteratesOK(d)'
  BY <1>1, <1>2 DEF IteratesOK
<1> QED
  BY <1>4, <1>6, <1>7 DEF CallInv

LEMMA ContinuedSound ==
    ASSUME NEW c, DOMAIN c = Fields, c.value \in Values, c.resizing \in BOOLEAN,
           c.pc \in Restructuring, CallInv(c), c.op \notin Keyless => c.key \in Keys,
           \A k \in Keys : ValueOf(map, entries, k)' = ValueOf(map, entries, k),
           NEW d, d = Continued(c)
    PROVE  CallInv(d)'
<1>1. /\ d.pc = "idle" => d = Done(c, c.result)
      /\ \/ d.pc \in {"check", "task"} /\ d.key = c.key /\ d.op = c.op
         \/ d.pc = "idle" /\ c.op \notin {"get", "replace", "put", "putIfAbsent"}
      /\ d.pc # "idle" => /\ d.seen = c.seen /\ d.expect = c.expect /\ d.result = c.result
                          /\ d.yielded = c.yielded
  BY ContinuedFields
<1>2. d.pc # "idle" => d.fresh = c.fresh
  BY ContinuedFields
<1>3. CASE d.pc = "idle"
  <2>1. SeesOK(c) /\ HasReason(c) /\ (Asks(c.op) => c.op = "remove")
    BY <1>1, <1>3 DEF CallInv, Asks
  <2>2. c.result # None => c.result \in c.seen
    BY <2>1 DEF SeesOK
  <2>3. Asks(c.op) /\ c.result = None => \/ None \in c.seen
                                         \/ c.expect # None /\ c.seen # {c.expect}
    BY <2>1 DEF HasReason
  <2>4. PICK x : x = c.result
    OBVIOUS
  <2> QED
    BY <1>1, <1>3, <2>2, <2>3, <2>4, DoneSound
<1>4. CASE d.pc # "idle"
  <2>1. SeesOK(d)'
    BY <1>1, <1>4 DEF CallInv, SeesOK, Asks, Keyless, Restructuring
  <2>2. ReadsOK(d)' /\ HasReason(d)'
    BY <1>1, <1>4 DEF ReadsOK, HasReason, Missed, Restructuring
  <2>3. d.yielded = <<>> /\ d.fresh /\ d.fresh \in BOOLEAN
    BY <1>1, <1>2, <1>4 DEF CallInv, IteratesOK, Restructuring
  <2>4. IteratesOK(d)'
    BY <1>1, <1>4, <2>3 DEF IteratesOK
  <2> QED
    BY <2>1, <2>2, <2>4 DEF CallInv
<1> QED
  BY <1>3, <1>4

------------------------------------------------------------------------------
(* Calls begin, and restructure.                                           *)

LEMMA BeginKeepsCInv ==
    ASSUME TInv, TInv', CInv, NEW p \in Threads, Begin(p) PROVE CInv'
<1>1. CallsOK /\ table' = table /\ entries' = entries /\ released' = released /\ map' = map
  BY DEF TInv, Begin
<1>2. Still /\ Steady
  BY <1>1, SameSteady DEF Still, ValuesStay
<1>3. PICK d : d = call'[p]
  OBVIOUS
<1>4. /\ \A q \in Threads \ {p} : call'[q] = call[q]
      /\ d.pc \in {"check", "table", "poll"} /\ d.result = None /\ d.yielded = <<>>
      /\ Asks(d.op) => d.seen = {ValueOf(map, entries, d.key)}
      /\ d.op \notin Keyless => d.key \in Keys
  BY <1>1, <1>3, BeginFields
<1>5. d.fresh = TRUE /\ (d.op = "remove" => d.pc = "check") /\ (d.pc = "table" => d.op = "iterate")
  <2>a. PICK op \in Calls[p] : \E key \in IF op \in Keyless THEN {None} ELSE Keys :
           \E expect \in Expected(op, key) :
           call' = [call EXCEPT ![p] =
                     [Idle EXCEPT
                        !.left = call[p].left - 1, !.op = op,
                        !.pc = CASE op \in {"remove", "clear"} -> "check"
                                 [] op = "iterate" -> "table"
                                 [] OTHER -> "poll",
                        !.key = key, !.expect = expect,
                        !.value = IF op \in {"put", "putIfAbsent", "replace"}
                                  THEN FreshValue(p) ELSE None,
                        !.seen = IF Asks(op) THEN {ValueOf(map, entries, key)} ELSE {}]]
    BY DEF Begin
  <2>b. PICK key \in IF op \in Keyless THEN {None} ELSE Keys : \E expect \in Expected(op, key) :
           call' = [call EXCEPT ![p] =
                     [Idle EXCEPT
                        !.left = call[p].left - 1, !.op = op,
                        !.pc = CASE op \in {"remove", "clear"} -> "check"
                                 [] op = "iterate" -> "table"
                                 [] OTHER -> "poll",
                        !.key = key, !.expect = expect,
                        !.value = IF op \in {"put", "putIfAbsent", "replace"}
                                  THEN FreshValue(p) ELSE None,
                        !.seen = IF Asks(op) THEN {ValueOf(map, entries, key)} ELSE {}]]
    BY <2>a
  <2>0. PICK expect \in Expected(op, key) :
           call' = [call EXCEPT ![p] =
                     [Idle EXCEPT
                        !.left = call[p].left - 1, !.op = op,
                        !.pc = CASE op \in {"remove", "clear"} -> "check"
                                 [] op = "iterate" -> "table"
                                 [] OTHER -> "poll",
                        !.key = key, !.expect = expect,
                        !.value = IF op \in {"put", "putIfAbsent", "replace"}
                                  THEN FreshValue(p) ELSE None,
                        !.seen = IF Asks(op) THEN {ValueOf(map, entries, key)} ELSE {}]]
    BY <2>b
  <2>p. PICK pc : pc = CASE op \in {"remove", "clear"} -> "check"
                         [] op = "iterate" -> "table"
                         [] OTHER -> "poll"
    OBVIOUS
  <2>v. PICK value : value = IF op \in {"put", "putIfAbsent", "replace"} THEN FreshValue(p) ELSE None
    OBVIOUS
  <2>s. PICK seen : seen = IF Asks(op) THEN {ValueOf(map, entries, key)} ELSE {}
    OBVIOUS
  <2>1. /\ call'[p] = [Idle EXCEPT !.left = call[p].left - 1, !.op = op, !.pc = pc,
                           !.key = key, !.expect = expect, !.value = value, !.seen = seen]
        /\ op = "remove" => pc = "check"
        /\ pc = "table" => op = "iterate"
    BY <1>1, <2>0, <2>p, <2>v, <2>s DEF CallsOK
  <2>2. d.op = op /\ d.pc = pc
    BY <1>3, <2>1, IdleFields DEF Fields
  <2>3. d.fresh = TRUE
    BY <1>3, <2>1, IdleFields DEF Fields
  <2> QED
    BY <2>1, <2>2, <2>3
<1>6. SeesOK(d)'
  BY <1>1, <1>4 DEF SeesOK, Asks, ValueOf
<1>7. ReadsOK(d)' /\ HasReason(d)'
  BY <1>4, <1>5 DEF ReadsOK, HasReason, Missed, Restructuring
<1>8. IteratesOK(d)'
  BY <1>4, <1>5 DEF IteratesOK
<1>9. CallInv(call[p])'
  BY <1>3, <1>6, <1>7, <1>8 DEF CallInv
<1> QED
  BY <1>2, <1>4, <1>9, StillKeepsCInv

SameCall(c, d) ==
    /\ d.op = c.op /\ d.key = c.key /\ d.expect = c.expect /\ d.result = c.result
    /\ d.seen = c.seen /\ d.excused = c.excused /\ d.yielded = c.yielded
    /\ d.fresh = c.fresh /\ d.frozen = c.frozen

\* The call of p goes on restructuring.
LEMMA WorksOn ==
    ASSUME TInv, TInv', CInv, Still, Steady, NEW p \in Threads,
           call[p].pc \in Restructuring, call'[p].pc \in Restructuring,
           SameCall(call[p], call'[p]), \A q \in Threads \ {p} : call'[q] = call[q]
    PROVE  CInv'
<1>. PICK c : c = call[p]
  OBVIOUS
<1>. PICK d : d = call'[p]
  OBVIOUS
<1>1. c.fresh \in BOOLEAN
  BY DEF CInv, CallInv, IteratesOK
<1>3. c.pc # "idle" /\ Asks(c.op) => ValueOf(map, entries, c.key)' \in c.seen
  BY SameSeen DEF Still
<1>4. Watches(c, d)
  BY <1>1, <1>3 DEF Watches, SameCall, Still, Restructuring
<1>5. CallInv(call[p])'
  BY <1>4, WatchingKeeps DEF CInv
<1> QED
  BY <1>5, StillKeepsCInv

\* The call of p goes on after restructuring, or ends with it.
LEMMA GoesOnSound ==
    ASSUME TInv, CInv, ValuesStay, NEW p \in Threads, call[p].pc \in Restructuring,
           NEW d, d = Continued(call[p])
    PROVE  CallInv(d)'
<1>. PICK c : c = call[p]
  OBVIOUS
<1>1. /\ DOMAIN c = Fields /\ c.value \in Values /\ c.resizing \in BOOLEAN /\ CallInv(c)
      /\ c.op \notin Keyless => c.key \in Keys
  BY DEF TInv, CallsOK, CallOK, CInv, Restructuring
<1>2. \A k \in Keys : ValueOf(map, entries, k)' = ValueOf(map, entries, k)
  BY SameValues
<1> QED
  BY <1>1, <1>2, ContinuedSound

LEMMA PollKeepsCInv ==
    ASSUME TInv, TInv', CInv, NEW p \in Threads, Poll(p) PROVE CInv'
<1>. PICK c : c = call[p]
  OBVIOUS
<1>. PICK d : d = call'[p]
  OBVIOUS
<1>1. DOMAIN call = Threads /\ c.pc = "poll" /\ DOMAIN c = Fields
  BY DEF TInv, CallsOK, CallOK, Poll
<1>2. Still /\ Steady
  BY SameSteady DEF Poll, Still, ValuesStay
<1>3. CASE \E x : call' = [call EXCEPT ![p] = [c EXCEPT !.pc = "lock", !.purge = x]]
  <2>1. PICK x : call' = [call EXCEPT ![p] = [c EXCEPT !.pc = "lock", !.purge = x]]
    BY <1>3
  <2>2. d.pc = "lock" /\ SameCall(c, d) /\ \A q \in Threads \ {p} : call'[q] = call[q]
    BY <1>1, <2>1 DEF SameCall, Fields
  <2> QED
    BY <1>1, <1>2, <2>2, WorksOn DEF Restructuring
<1>4. CASE call' = [call EXCEPT ![p] = Continued(c)]
  <2>1. d = Continued(call[p]) /\ \A q \in Threads \ {p} : call'[q] = call[q]
    BY <1>1, <1>4
  <2>2. CallInv(d)'
    BY <1>1, <1>2, <2>1, GoesOnSound DEF Restructuring, Still
  <2>3. CallInv(call[p])'
    BY <2>2
  <2> QED
    BY <1>2, <2>1, <2>3, StillKeepsCInv
<1>5. CASE call' = [call EXCEPT ![p] = [c EXCEPT !.pc = "lock"]]
  <2>1. d.pc = "lock" /\ SameCall(c, d) /\ \A q \in Threads \ {p} : call'[q] = call[q]
    BY <1>1, <1>5 DEF SameCall, Fields
  <2> QED
    BY <1>1, <1>2, <2>1, WorksOn DEF Restructuring
<1> QED
  BY <1>1, <1>3, <1>4, <1>5 DEF Poll

LEMMA LockKeepsCInv ==
    ASSUME TInv, TInv', CInv, NEW p \in Threads, Lock(p) PROVE CInv'
<1>. PICK c : c = call[p]
  OBVIOUS
<1>. PICK d : d = call'[p]
  OBVIOUS
<1>1. DOMAIN call = Threads /\ c.pc = "lock" /\ DOMAIN c = Fields
  BY DEF TInv, CallsOK, CallOK, Lock
<1>2. Still /\ Steady
  BY SameSteady DEF Lock, Still, ValuesStay
<1>3. PICK purge, after, resizing, built :
         call' = [call EXCEPT ![p].pc = "rebuild", ![p].purge = purge, ![p].after = after,
                    ![p].resizing = resizing, ![p].built = built]
  <2>1. PICK purge : purge = IF call[p].purge = {} THEN {} ELSE call[p].purge \cup queue
    OBVIOUS
  <2>2. PICK after : after = count - Cardinality(purge)
    OBVIOUS
  <2>3. PICK resizing : resizing = /\ allowResize(call[p])
                                   /\ after > 0 /\ after >= resizeThreshold(table)
                                   /\ Size(table) < MaxSegmentSize
    OBVIOUS
  <2>4. PICK built : built = IF resizing THEN createReferenceArray(2 * Size(table)) ELSE <<>>
    OBVIOUS
  <2> QED
    BY <2>1, <2>2, <2>3, <2>4, Zenon DEF Lock
<1>4. d.pc = "rebuild" /\ SameCall(c, d) /\ \A q \in Threads \ {p} : call'[q] = call[q]
  BY <1>1, <1>3 DEF SameCall, Fields
<1> QED
  BY <1>1, <1>2, <1>4, WorksOn DEF Restructuring

LEMMA DetachKeepsCInv ==
    ASSUME TInv, TInv', CInv, NEW p \in Threads, Detach(p) PROVE CInv'
<1>. PICK c : c = call[p]
  OBVIOUS
<1>. PICK d : d = call'[p]
  OBVIOUS
<1>1. DOMAIN call = Threads /\ c.pc = "rebuild" /\ DOMAIN c = Fields
  BY DEF TInv, CallsOK, CallOK, Detach, TakenUp
<1>2. Still /\ Steady
  BY SameSteady DEF Detach, TakenUp, Still, ValuesStay
<1>3. call' = [call EXCEPT ![p] = [c EXCEPT !.chain = table[c.i], !.i = c.i + 1]]
  BY <1>1 DEF Detach, TakenUp
<1>4. d.pc = "rebuild" /\ SameCall(c, d) /\ \A q \in Threads \ {p} : call'[q] = call[q]
  BY <1>1, <1>3 DEF SameCall, Fields
<1> QED
  BY <1>1, <1>2, <1>4, WorksOn DEF Restructuring

LEMMA TestKeepsCInv ==
    ASSUME TInv, TInv', CInv, NEW p \in Threads, Test(p) PROVE CInv'
<1>. PICK c : c = call[p]
  OBVIOUS
<1>. PICK d : d = call'[p]
  OBVIOUS
<1>1. DOMAIN call = Threads /\ c.pc = "rebuild" /\ DOMAIN c = Fields
  BY DEF TInv, CallsOK, CallOK, Test
<1>2. Still /\ Steady
  BY SameSteady DEF Test, Still, ValuesStay
<1>3. PICK x : call' = [call EXCEPT ![p] = x]
               /\ (x = [c EXCEPT !.pc = "move"] \/ x = [c EXCEPT !.chain = Tail(c.chain)])
  BY <1>1 DEF Test
<1>4. d.pc \in Restructuring /\ SameCall(c, d) /\ \A q \in Threads \ {p} : call'[q] = call[q]
  BY <1>1, <1>3 DEF SameCall, Fields, Restructuring
<1> QED
  BY <1>1, <1>2, <1>4, WorksOn DEF Restructuring

LEMMA MoveKeepsCInv ==
    ASSUME TInv, TInv', CInv, NEW p \in Threads, Move(p) PROVE CInv'
<1>. PICK c : c = call[p]
  OBVIOUS
<1>. PICK d : d = call'[p]
  OBVIOUS
<1>1. /\ DOMAIN call = Threads /\ c.pc = "move" /\ DOMAIN c = Fields /\ EntriesOK
      /\ released' = released /\ map' = map
  BY DEF TInv, CallsOK, CallOK, Move, MovedTo
<1>2. PICK e, j, moved :
         /\ entries' = [entries EXCEPT ![e].gen = @ + 1]
         /\ moved = [Target(c) EXCEPT ![j] = <<Ref(e, entries[e].gen + 1)>> \o @]
         /\ table' = IF c.resizing THEN table ELSE moved
  BY DEF Move, MovedTo
<1>3. PICK built : call' = [call EXCEPT ![p] = [c EXCEPT !.pc = "rebuild", !.chain = Tail(c.chain),
                                                         !.built = built]]
  BY <1>1 DEF Move, MovedTo
<1>4. DOMAIN table' = DOMAIN table
  BY <1>2 DEF Target
<1>5. ASSUME NEW f \in DOMAIN entries
      PROVE  /\ f \in DOMAIN entries' /\ entries'[f].key = entries[f].key
             /\ entries'[f].gen \in Nat /\ entries[f].gen <= entries'[f].gen
             /\ entries'[f].collected = entries[f].collected
             /\ entries'[f].value = entries[f].value
  <2>1. entries[f] \in Entry
    BY <1>1 DEF EntriesOK
  <2> QED
    BY <1>2, <2>1 DEF Entry
<1>6. Still /\ Grows
  BY <1>1, <1>4, <1>5 DEF Still, ValuesStay, Grows
<1>7. \A r : Made(r) => (Alive(r)' <=> Alive(r))
  BY <1>1, <1>5 DEF Made, Alive
<1>8. Steady
  BY <1>1, <1>5, <1>6, <1>7 DEF Steady
<1>9. d.pc = "rebuild" /\ SameCall(c, d) /\ \A q \in Threads \ {p} : call'[q] = call[q]
  BY <1>1, <1>3 DEF SameCall, Fields
<1> QED
  BY <1>1, <1>6, <1>8, <1>9, WorksOn DEF Restructuring

\* Threads look on when the table is replaced.
LEMMA ReplacedIs ==
    ASSUME NEW calls, NEW q \in Threads, NEW c, c = calls[q], DOMAIN c = Fields,
           NEW d, d = Replaced(calls)[q]
    PROVE  /\ c.pc = "iterate" /\ c.fresh => ~d.fresh /\ d.fresh \in BOOLEAN /\ d.frozen = table
           /\ ~(c.pc = "iterate" /\ c.fresh) => d = c
<1>1. CASE calls[q].pc = "iterate" /\ calls[q].fresh
  <2>1. d = [calls[q] EXCEPT !.fresh = FALSE, !.frozen = table]
    BY <1>1, Zenon DEF Replaced
  <2>2. d.fresh = FALSE /\ d.frozen = table
    BY <2>1 DEF Fields
  <2> QED
    BY <1>1, <2>2
<1>2. CASE ~(calls[q].pc = "iterate" /\ calls[q].fresh)
  <2>1. d = calls[q]
    BY <1>2, Zenon DEF Replaced
  <2> QED
    BY <1>2, <2>1
<1> QED
  BY <1>1, <1>2

LEMMA PublishKeepsCInv ==
    ASSUME TInv, TInv', CInv, NEW p \in Threads, Publish(p) PROVE CInv'
<1>. PICK c : c = call[p]
  OBVIOUS
<1>. PICK d : d = call'[p]
  OBVIOUS
<1>1. /\ DOMAIN call = Threads /\ c.pc = "rebuild"
      /\ entries' = entries /\ released' = released /\ map' = map
  BY DEF TInv, CallsOK, Publish, Published
<1>2. Steady
  BY <1>1, SameSteady
<1>3. PICK calls : calls = [call EXCEPT ![p] = Continued(c)]
  OBVIOUS
<1>4. calls[p] = Continued(call[p]) /\ \A q \in Threads \ {p} : calls[q] = call[q]
  BY <1>1, <1>3
<1>5. PICK x : x = calls[p]
  OBVIOUS
<1>6. /\ DOMAIN x = Fields /\ x.pc \in {"check", "task", "idle"}
  BY <1>1, <1>4, <1>5, ContinuedFields DEF TInv, CallsOK, CallOK
<1>7. CASE ~c.resizing
  <2>1. Still /\ call' = calls
    BY <1>1, <1>3, <1>7 DEF Publish, Published, Still, ValuesStay
  <2>2. CallInv(d)'
    BY <1>1, <1>4, <2>1, GoesOnSound DEF Restructuring, Still
  <2>3. CallInv(call[p])'
    BY <2>2
  <2> QED
    BY <1>2, <1>4, <2>1, <2>3, StillKeepsCInv
<1>8. CASE c.resizing
  <2>1. call' = Replaced(calls)
    BY <1>3, <1>8 DEF Publish, Published
  <2>2. d = x
    BY <1>5, <1>6, <2>1, ReplacedIs
  <2>3. ValuesStay
    BY <1>1 DEF ValuesStay
  <2>4. CallInv(d)'
    BY <1>1, <1>4, <1>5, <2>2, <2>3, GoesOnSound DEF Restructuring
  <2>5. CallInv(call[p])'
    BY <2>4
  <2>6. ASSUME NEW q \in Threads \ {p} PROVE Watches(call[q], call'[q])
    <3>1. PICK y : y = call[q]
      OBVIOUS
    <3>2. PICK z : z = call'[q]
      OBVIOUS
    <3>3. DOMAIN y = Fields /\ y = calls[q] /\ z = Replaced(calls)[q]
      BY <1>4, <2>1, <2>6, <3>1, <3>2 DEF TInv, CallsOK, CallOK
    <3>4. /\ z.pc = y.pc /\ z.op = y.op /\ z.key = y.key /\ z.expect = y.expect
          /\ z.result = y.result /\ z.seen = y.seen /\ z.i = y.i /\ z.chain = y.chain
          /\ z.yielded = y.yielded
      BY <3>3, ReplacedFields
    <3>5. z.excused = y.excused
      BY <3>3, ReplacedFields
    <3>6. y.pc # "idle" /\ Asks(y.op) => ValueOf(map, entries, y.key)' \in z.seen
      BY <2>3, <3>1, <3>4, SameSeen
    <3>7. /\ y.fresh \in BOOLEAN
          /\ y.pc = "iterate" /\ y.fresh => ~z.fresh /\ z.fresh \in BOOLEAN /\ z.frozen = table
          /\ ~(y.pc = "iterate" /\ y.fresh) => z.fresh = y.fresh /\ z.frozen = y.frozen
      <4>1. y.fresh \in BOOLEAN
        BY <3>1 DEF CInv, CallInv, IteratesOK
      <4>2. /\ y.pc = "iterate" /\ y.fresh => ~z.fresh /\ z.fresh \in BOOLEAN /\ z.frozen = table
            /\ ~(y.pc = "iterate" /\ y.fresh) => z = y
        BY <3>3, ReplacedIs
      <4> QED
        BY <4>1, <4>2
    <3>8. Watches(y, z)
      BY <3>4, <3>5, <3>6, <3>7 DEF Watches
    <3> QED
      BY <3>1, <3>2, <3>8
  <2> QED
    BY <1>2, <2>5, <2>6, OthersWatch
<1> QED
  BY <1>7, <1>8

------------------------------------------------------------------------------
(* Readers and iterators.                                                  *)

\* What the map has is in the table, or in the hands of the purge that took it out.
LEMMA InSight ==
    ASSUME TInv, NEW k \in Keys, map[k] # 0
    PROVE  InTable(k) \/ TakenOut(k)
<1>1. EntriesOK /\ IsTable(table) /\ map[k] \in Nat
  BY DEF TInv, TableOK, EntriesOK
<1>2. ASSUME NEW chain, IsChain(chain), Holds(chain, map[k])
      PROVE  findInChain(chain, k) # <<>>
  <2>1. PICK n \in DOMAIN chain : chain[n].e = map[k] /\ chain[n] \notin released
    BY <1>2 DEF Holds
  <2>2. entries[map[k]].key = k /\ ~entries[map[k]].collected
    BY <1>1 DEF EntriesOK
  <2>3. n \in Hits(chain, k)
    BY <2>1, <2>2 DEF Hits, Alive
  <2> QED
    BY <1>2, <2>3, FoundIs
<1>3. PICK i : i = getIndex(k, table)
  OBVIOUS
<1>4. PICK chain : chain = table[i]
  OBVIOUS
<1>5. IsChain(chain)
  BY <1>1, <1>3, <1>4, IndexIn DEF IsTable
<1>6. Holds(chain, map[k]) => InTable(k)
  BY <1>2, <1>3, <1>4, <1>5 DEF InTable
<1>7. CASE HoldsMap
  BY <1>3, <1>4, <1>6, <1>7 DEF HoldsMap
<1>8. CASE ~HoldsMap
  <2>1. PICK q \in Threads : lock = q /\ ~call[q].resizing
    BY <1>8 DEF TInv, TableOK
  <2>2. PICK c : c = call[q]
    OBVIOUS
  <2>3. PICK u : u = table
    OBVIOUS
  <2>4. Working(c, u, u)
    BY <2>1, <2>2, <2>3 DEF TInv, Rebuilding, Target
  <2>5. Holds(u[getIndex(k, u)], map[k]) \/ Holds(c.chain, map[k])
    BY <2>4 DEF Working
  <2>6. CASE Holds(u[getIndex(k, u)], map[k])
    BY <1>3, <1>4, <1>6, <2>3, <2>6
  <2>7. CASE Holds(c.chain, map[k])
    <3>1. PICK taken : taken = c.chain
      OBVIOUS
    <3>2. IsChain(taken) /\ Holds(taken, map[k])
      BY <2>4, <2>7, <3>1 DEF Working
    <3>3. findInChain(taken, k) # <<>>
      BY <1>2, <3>2
    <3> QED
      BY <2>1, <2>2, <3>1, <3>3 DEF TakenOut
  <2> QED
    BY <2>5, <2>6, <2>7
<1> QED
  BY <1>7, <1>8

\* A call that has not seen nothing has its key in the map.
LEMMA SeesKey ==
    ASSUME NEW c, SeesOK(c), c.pc # "idle", Asks(c.op), None \notin c.seen
    PROVE  map[c.key] # 0
BY DEF SeesOK, ValueOf

LEMMA CheckKeepsCInv ==
    ASSUME TInv, TInv', CInv, NEW p \in Threads, Check(p) PROVE CInv'
<1>. PICK c : c = call[p]
  OBVIOUS
<1>. PICK d : d = call'[p]
  OBVIOUS
<1>1. /\ DOMAIN call = Threads /\ c.pc = "check" /\ DOMAIN c = Fields /\ CallInv(c)
      /\ c.op \notin Keyless => c.key \in Keys
  BY DEF TInv, CallsOK, CallOK, Check, CInv
<1>2. Still /\ Steady
  BY SameSteady DEF Check, Still, ValuesStay
<1>3. \A q \in Threads \ {p} : call'[q] = call[q]
  BY <1>1 DEF Check
<1>4. CASE count > 0
  <2>1. PICK pc : pc = IF c.op = "get" THEN "head" ELSE "task"
    OBVIOUS
  <2>2. d = [c EXCEPT !.pc = pc]
    BY <1>1, <1>4, <2>1 DEF Check
  <2>3. d.pc = pc /\ SameCall(c, d)
    BY <1>1, <2>2 DEF SameCall, Fields
  <2>4. SeesOK(c) /\ (Asks(c.op) => ValueOf(map, entries, c.key)' \in c.seen)
    BY <1>1, <1>2, SameSeen DEF Still, CallInv
  <2>5. SeesOK(d)'
    BY <2>3, <2>4 DEF SeesOK, SameCall, ValueOf
  <2>6. ReadsOK(d)' /\ HasReason(d)'
    BY <2>1, <2>3 DEF ReadsOK, HasReason, Missed, Restructuring, SameCall
  <2>7. IteratesOK(d)'
    BY <1>1, <2>1, <2>3 DEF IteratesOK, SameCall, CallInv
  <2>8. CallInv(call[p])'
    BY <2>5, <2>6, <2>7 DEF CallInv
  <2> QED
    BY <1>2, <1>3, <2>8, StillKeepsCInv
<1>5. CASE ~(count > 0) /\ c.op = "clear"
  <2>1. d = Done(c, None)
    BY <1>1, <1>5 DEF Check
  <2>2. ~Asks(c.op)
    BY <1>5 DEF Asks
  <2>3. CallInv(d)'
    BY <2>1, <2>2, DoneSound
  <2>4. CallInv(call[p])'
    BY <2>3
  <2> QED
    BY <1>2, <1>3, <2>4, StillKeepsCInv
<1>6. CASE ~(count > 0) /\ c.op # "clear"
  <2>1. PICK sees \in BOOLEAN : sees = (InTable(c.key) \/ TakenOut(c.key))
    OBVIOUS
  <2>2. PICK x : x = [c EXCEPT !.excused = sees]
    OBVIOUS
  <2>3. d = Done(x, None)
    BY <1>1, <1>6, <2>1, <2>2 DEF Check
  <2>4. x.op = c.op /\ x.seen = c.seen
    BY <1>1, <2>2 DEF Fields
  <2>5. x.excused = sees
    BY <1>1, <2>2 DEF Fields
  <2>6. Asks(c.op) => None \in c.seen \/ x.excused
    <3>1. ASSUME Asks(c.op), None \notin c.seen PROVE x.excused
      <4>1. map[c.key] # 0 /\ c.key \in Keys
        BY <1>1, <3>1, SeesKey DEF CallInv, Asks, Keyless
      <4>2. InTable(c.key) \/ TakenOut(c.key)
        BY <4>1, InSight
      <4> QED
        BY <2>1, <2>5, <4>2
    <3> QED
      BY <3>1
  <2>7. CallInv(d)'
    BY <2>3, <2>4, <2>6, DoneSound
  <2>8. CallInv(call[p])'
    BY <2>7
  <2> QED
    BY <1>2, <1>3, <2>8, StillKeepsCInv
<1> QED
  BY <1>4, <1>5, <1>6

LEMMA ReadHeadKeepsCInv ==
    ASSUME TInv, TInv', CInv, NEW p \in Threads, ReadHead(p) PROVE CInv'
<1>. PICK c : c = call[p]
  OBVIOUS
<1>. PICK d : d = call'[p]
  OBVIOUS
<1>1. /\ DOMAIN call = Threads /\ c.pc = "head" /\ DOMAIN c = Fields /\ CallInv(c)
      /\ c.op \notin Keyless => c.key \in Keys
      /\ entries' = entries /\ released' = released /\ map' = map
  BY DEF TInv, CallsOK, CallOK, ReadHead, CInv
<1>2. Still /\ Steady
  BY SameSteady DEF ReadHead, Still, ValuesStay
<1>3. \A q \in Threads \ {p} : call'[q] = call[q]
  BY <1>1 DEF ReadHead
<1>4. c.op = "get" /\ c.key \in Keys /\ Asks(c.op)
  BY <1>1 DEF CallInv, ReadsOK, Keyless, Asks
<1>5. PICK key : key = c.key
  OBVIOUS
<1>6. PICK i : i = getIndex(key, table)
  OBVIOUS
<1>7. PICK chain : chain = table[i]
  OBVIOUS
<1>8. PICK out \in BOOLEAN : out = TakenOut(key)
  BY DEF TakenOut
<1>9. d = [c EXCEPT !.pc = "find", !.excused = out, !.chain = chain]
  BY <1>1, <1>5, <1>6, <1>7, <1>8 DEF ReadHead
<1>10. /\ d.pc = "find" /\ d.chain = chain /\ d.op = c.op /\ d.key = key /\ d.expect = c.expect
       /\ d.result = c.result /\ d.seen = c.seen /\ d.yielded = c.yielded
  BY <1>1, <1>5, <1>9 DEF Fields
<1>11. d.excused = out
  BY <1>1, <1>9 DEF Fields
<1>12. d.fresh = c.fresh /\ d.frozen = c.frozen
  BY <1>1, <1>9 DEF Fields
<1>13. /\ IsChain(chain) /\ Current(chain)
  BY <1>4, <1>5, <1>6, <1>7, IndexIn DEF TInv, TableOK, IsTable, CurrentTable
<1>14. ValueOf(map, entries, key) \in c.seen
  BY <1>1, <1>4, <1>5 DEF CallInv, SeesOK
<1>15. SeesChain(d)
  <2>1. ASSUME NEW n \in DOMAIN chain, Alive(chain[n]), KeyOf(chain[n]) = key
        PROVE  map[key] = chain[n].e /\ entries[chain[n].e].value \in c.seen
    <3>1. map[key] = chain[n].e /\ chain[n].e \in DOMAIN entries
      BY <1>13, <2>1 DEF Current, IsChain, Made
    <3>2. chain[n].e # 0
      BY <3>1, LenProperties DEF TInv, EntriesOK
    <3> QED
      BY <1>14, <3>1, <3>2 DEF ValueOf
  <2> QED
    BY <1>10, <2>1 DEF SeesChain
<1>16. None \in d.seen \/ d.excused \/ Hits(chain, key) # {}
  <2>1. ASSUME None \notin c.seen, ~out PROVE Hits(chain, key) # {}
    <3>1. map[key] # 0 /\ key \in Keys
      BY <1>4, <1>5, <1>14, <2>1 DEF ValueOf
    <3>2. InTable(key)
      BY <1>8, <2>1, <3>1, InSight
    <3>3. findInChain(chain, key) # <<>>
      BY <1>6, <1>7, <3>2 DEF InTable
    <3> QED
      BY <1>13, <3>3, FoundIs
  <2> QED
    BY <1>10, <1>11, <2>1
<1>17. SeesOK(d)'
  BY <1>1, <1>10, <1>14 DEF SeesOK, ValueOf, CallInv
<1>18. ReadsOK(d)'
  <2>1. /\ (IsChain(d.chain) /\ SeesChain(d))' 
        /\ (None \in d.seen \/ d.excused \/ Hits(d.chain, d.key) # {})'
    BY <1>1, <1>10, <1>13, <1>15, <1>16
       DEF IsChain, Made, SeesChain, Alive, KeyOf, Hits
  <2> QED
    BY <1>4, <1>10, <2>1 DEF ReadsOK
<1>19. HasReason(d)'
  BY <1>10 DEF HasReason, Missed, Restructuring
<1>20. IteratesOK(d)'
  BY <1>1, <1>10, <1>12 DEF IteratesOK, CallInv
<1>21. CallInv(call[p])'
  BY <1>17, <1>18, <1>19, <1>20 DEF CallInv
<1> QED
  BY <1>2, <1>3, <1>21, StillKeepsCInv

LEMMA FindKeepsCInv ==
    ASSUME TInv, TInv', CInv, NEW p \in Threads, Find(p) PROVE CInv'
<1>. PICK c : c = call[p]
  OBVIOUS
<1>. PICK d : d = call'[p]
  OBVIOUS
<1>1. /\ DOMAIN call = Threads /\ c.pc = "find" /\ DOMAIN c = Fields /\ CallInv(c)
      /\ c.op \notin Keyless => c.key \in Keys
      /\ entries' = entries /\ released' = released /\ map' = map
  BY DEF TInv, CallsOK, CallOK, Find, CInv
<1>2. Still /\ Steady
  BY SameSteady DEF Find, Still, ValuesStay
<1>3. \A q \in Threads \ {p} : call'[q] = call[q]
  BY <1>1 DEF Find
<1>4. /\ c.op = "get" /\ Asks(c.op) /\ IsChain(c.chain) /\ SeesChain(c)
      /\ None \in c.seen \/ c.excused \/ Hits(c.chain, c.key) # {}
  BY <1>1 DEF CallInv, ReadsOK, Asks
<1>5. PICK chain : chain = c.chain
  OBVIOUS
<1>6. PICK found : found = findInChain(chain, c.key)
  OBVIOUS
<1>7. CASE found = <<>>
  <2>1. d = Done(c, None)
    BY <1>1, <1>5, <1>6, <1>7 DEF Find
  <2>2. None \in c.seen \/ c.excused
    BY <1>4, <1>5, <1>6, <1>7, FoundIs
  <2>3. CallInv(d)'
    BY <2>1, <2>2, DoneSound
  <2>4. CallInv(call[p])'
    BY <2>3
  <2> QED
    BY <1>2, <1>3, <2>4, StillKeepsCInv
<1>8. CASE found # <<>>
  <2>1. PICK n \in Hits(chain, c.key) : found = <<chain[n]>>
    BY <1>4, <1>5, <1>6, <1>8, FoundIs
  <2>2. PICK r : r = chain[n]
    OBVIOUS
  <2>3. /\ n \in DOMAIN chain /\ Alive(r) /\ KeyOf(r) = c.key /\ Made(r)
    BY <1>4, <1>5, <2>1, <2>2 DEF Hits, KeyOf, IsChain
  <2>4. d = [c EXCEPT !.pc = "value", !.chain = <<r>>]
    BY <1>1, <1>5, <1>6, <1>8, <2>1, <2>2 DEF Find
  <2>5. /\ d.pc = "value" /\ d.chain = <<r>> /\ SameCall(c, d)
    BY <1>1, <2>4 DEF Fields, SameCall
  <2>6. /\ DOMAIN d.chain = {1} /\ d.chain[1] = r
    BY <2>5
  <2>7. IsChain(d.chain)
    <3>1. r \in Refs /\ d.chain \in Seq(Refs)
      BY <2>3, <2>5 DEF Made
    <3> QED
      BY <2>3, <2>6, <3>1 DEF IsChain
  <2>8. /\ entries[r.e].value \in c.seen
        /\ None \in c.seen \/ map[c.key] = r.e
    BY <1>4, <1>5, <2>2, <2>3 DEF SeesChain
  <2>9. SeesChain(d)
    BY <2>5, <2>6, <2>8 DEF SeesChain, SameCall
  <2>10. ReadsOK(d)'
    <3>1. (IsChain(d.chain) /\ SeesChain(d))' /\ KeyOf(d.chain[1])' = d.key /\ Alive(d.chain[1])'
      BY <1>1, <2>3, <2>5, <2>6, <2>7, <2>9
         DEF IsChain, Made, SeesChain, Alive, KeyOf, SameCall
    <3> QED
      BY <1>4, <2>5, <2>6, <3>1 DEF ReadsOK, SameCall
  <2>11. SeesOK(d)'
    BY <1>1, <1>4, <2>5 DEF SeesOK, ValueOf, CallInv, SameCall
  <2>12. HasReason(d)'
    BY <2>5 DEF HasReason, Missed, Restructuring
  <2>13. IteratesOK(d)'
    BY <1>1, <2>5 DEF IteratesOK, CallInv, SameCall
  <2>14. CallInv(call[p])'
    BY <2>10, <2>11, <2>12, <2>13 DEF CallInv
  <2> QED
    BY <1>2, <1>3, <2>14, StillKeepsCInv
<1> QED
  BY <1>7, <1>8

LEMMA ValueKeepsCInv ==
    ASSUME TInv, TInv', CInv, NEW p \in Threads, Value(p) PROVE CInv'
<1>. PICK c : c = call[p]
  OBVIOUS
<1>. PICK d : d = call'[p]
  OBVIOUS
<1>1. DOMAIN call = Threads /\ c.pc = "value" /\ CallInv(c)
  BY DEF TInv, CallsOK, Value, CInv
<1>2. Still /\ Steady
  BY SameSteady DEF Value, Still, ValuesStay
<1>3. \A q \in Threads \ {p} : call'[q] = call[q]
  BY <1>1 DEF Value
<1>4. PICK r : r = Head(c.chain)
  OBVIOUS
<1>5. PICK x : x = IF Alive(r) THEN entries[r.e].value ELSE None
  OBVIOUS
<1>6. d = Done(c, x)
  BY <1>1, <1>4, <1>5 DEF Value
<1>7. /\ SeesChain(c) /\ DOMAIN c.chain = {1} /\ KeyOf(c.chain[1]) = c.key
      /\ None \in c.seen \/ Alive(c.chain[1])
      /\ c.chain \in Seq(Refs)
  BY <1>1 DEF CallInv, ReadsOK, IsChain
<1>8. r = c.chain[1]
  BY <1>4, <1>7, HeadTailProperties, EmptySeq
<1>9. Alive(r) => entries[r.e].value \in c.seen
  BY <1>7, <1>8 DEF SeesChain
<1>10. /\ x # None => x \in c.seen
       /\ x = None => None \in c.seen
  BY <1>5, <1>7, <1>8, <1>9
<1>11. CallInv(d)'
  BY <1>6, <1>10, DoneSound
<1>12. CallInv(call[p])'
  BY <1>11
<1> QED
  BY <1>2, <1>3, <1>12, StillKeepsCInv

LEMMA IteratorKeepsCInv ==
    ASSUME TInv, TInv', CInv, NEW p \in Threads, Iterator(p) PROVE CInv'
<1>. PICK c : c = call[p]
  OBVIOUS
<1>. PICK d : d = call'[p]
  OBVIOUS
<1>1. /\ DOMAIN call = Threads /\ c.pc = "table" /\ DOMAIN c = Fields /\ CallInv(c)
      /\ c.i = 0 /\ c.chain = <<>> /\ table' = table
  BY DEF TInv, CallsOK, CallOK, Iterator, CInv, Resting
<1>2. Still /\ Steady
  BY SameSteady DEF Iterator, Still, ValuesStay
<1>3. \A q \in Threads \ {p} : call'[q] = call[q]
  BY <1>1 DEF Iterator
<1>4. d = [c EXCEPT !.pc = "iterate"]
  BY <1>1 DEF Iterator
<1>5. d.pc = "iterate" /\ SameCall(c, d) /\ d.i = 0 /\ d.chain = <<>>
  BY <1>1, <1>4 DEF SameCall, Fields
<1>6. SeesOK(d)'
  <2>1. SeesOK(c) /\ (Asks(c.op) => ValueOf(map, entries, c.key)' \in c.seen)
    BY <1>1, <1>2, SameSeen DEF Still, CallInv
  <2> QED
    BY <1>5, <2>1 DEF SeesOK, SameCall, ValueOf
<1>7. ReadsOK(d)' /\ HasReason(d)'
  BY <1>5 DEF ReadsOK, HasReason, Missed, Restructuring
<1>8. d.fresh /\ d.fresh \in BOOLEAN /\ d.yielded = <<>>
  BY <1>1, <1>5 DEF CallInv, IteratesOK, SameCall
<1>9. PICK t : t = View(d)'
  OBVIOUS
<1>10. t = table
  BY <1>1, <1>8, <1>9 DEF View
<1>11. Size(t) \in Nat
  BY <1>10 DEF TInv, TableOK, IsTable, HasSize
<1>12. Iterating(d, t)'
  <2>1. IsChain(d.chain)' /\ AliveOnce(d.chain)'
    BY <1>5 DEF IsChain, AliveOnce
  <2> QED
    BY <1>5, <1>8, <1>11, <2>1 DEF Iterating, Size
<1>13. IteratesOK(d)'
  BY <1>1, <1>5, <1>8, <1>9, <1>12 DEF IteratesOK, CallInv, SameCall
<1>14. CallInv(call[p])'
  BY <1>6, <1>7, <1>13 DEF CallInv
<1> QED
  BY <1>2, <1>3, <1>14, StillKeepsCInv

\* What an iterator knows.
Reaches(c, t) ==
    /\ c.i \in 0 .. Size(t) /\ IsChain(c.chain) /\ AliveOnce(c.chain) /\ WasTable(t)
    /\ \A n \in DOMAIN c.chain : getIndex(KeyOf(c.chain[n]), t) = c.i - 1
    /\ c.yielded \in Seq(Keys)
    /\ \A y \in DOMAIN c.yielded :
          /\ getIndex(c.yielded[y], t) < c.i
          /\ \A n \in DOMAIN c.chain : Alive(c.chain[n]) => KeyOf(c.chain[n]) # c.yielded[y]
    /\ \A x, y \in DOMAIN c.yielded : c.yielded[x] = c.yielded[y] => x = y

LEMMA IteratorReaches ==
    ASSUME TInv, CInv, NEW p \in Threads, NEW c, c = call[p], c.pc = "iterate",
           NEW t, t = View(c)
    PROVE  Reaches(c, t)
<1>1. WasTable(table)
  BY TableWas DEF TInv, TableOK
<1>2. IteratesOK(c)
  BY DEF CInv, CallInv
<1>3. WasTable(t)
  BY <1>1, <1>2 DEF IteratesOK, View
<1> QED
  BY <1>2, <1>3 DEF IteratesOK, Iterating, Reaches

\* An iterator that has gone on in t.
LEMMA IteratesOn ==
    ASSUME TInv, TInv', CInv, Still, Steady, table' = table, entries' = entries,
           released' = released, NEW p \in Threads,
           \A q \in Threads \ {p} : call'[q] = call[q],
           NEW c, c = call[p], NEW d, d = call'[p], NEW t, t = View(c),
           c.pc = "iterate", d.pc = "iterate", d.op = c.op, d.key = c.key, d.result = c.result,
           d.seen = c.seen, d.fresh = c.fresh, d.frozen = c.frozen, Iterating(d, t)
    PROVE  CInv'
<1>1. /\ CallInv(c) /\ c.fresh \in BOOLEAN
      /\ Asks(c.op) => ValueOf(map, entries, c.key)' \in c.seen
  BY SameSeen DEF CInv, CallInv, IteratesOK, Still
<1>2. SeesOK(d)'
  BY <1>1 DEF SeesOK, CallInv, ValueOf
<1>3. ReadsOK(d)' /\ HasReason(d)'
  BY DEF ReadsOK, HasReason, Missed, Restructuring
<1>4. t = View(d)'
  BY DEF View
<1>5. Iterating(d, t)'
  BY DEF Iterating, IsChain, Made, AliveOnce, Alive, KeyOf, getIndex, Size
<1>6. ~d.fresh => WasTable(d.frozen)'
  <2>1. ~d.fresh => WasTable(d.frozen)
    BY <1>1 DEF CallInv, IteratesOK
  <2>2. PICK u : u = d.frozen
    OBVIOUS
  <2>3. WasTable(u) => WasTable(u)'
    BY WasStays DEF Steady, TInv
  <2> QED
    BY <2>1, <2>2, <2>3
<1>7. IteratesOK(d)'
  BY <1>1, <1>4, <1>5, <1>6 DEF IteratesOK, CallInv
<1>8. CallInv(call[p])'
  BY <1>2, <1>3, <1>7 DEF CallInv
<1> QED
  BY <1>8, StillKeepsCInv

LEMMA NextChainKeepsCInv ==
    ASSUME TInv, TInv', CInv, NEW p \in Threads, NextChain(p) PROVE CInv'
<1>. PICK c : c = call[p]
  OBVIOUS
<1>. PICK d : d = call'[p]
  OBVIOUS
<1>. PICK t : t = View(c)
  OBVIOUS
<1>1. /\ DOMAIN call = Threads /\ c.pc = "iterate" /\ DOMAIN c = Fields /\ CallInv(c)
      /\ c.chain = <<>> /\ table' = table /\ entries' = entries /\ released' = released
  BY DEF TInv, CallsOK, CallOK, NextChain, CInv
<1>2. Still /\ Steady
  BY SameSteady DEF NextChain, Still, ValuesStay
<1>3. \A q \in Threads \ {p} : call'[q] = call[q]
  BY <1>1 DEF NextChain
<1>4. CASE c.i = Size(t)
  <2>1. d = Done(c, None)
    BY <1>1, <1>4 DEF NextChain
  <2>2. ~Asks(c.op)
    BY <1>1 DEF CallInv, IteratesOK, Asks
  <2>3. CallInv(d)'
    BY <2>1, <2>2, DoneSound
  <2>4. CallInv(call[p])'
    BY <2>3
  <2> QED
    BY <1>2, <1>3, <2>4, StillKeepsCInv
<1>5. CASE c.i # Size(t)
  <2>1. PICK chain : chain = t[c.i]
    OBVIOUS
  <2>2. d = [c EXCEPT !.chain = chain, !.i = c.i + 1]
    BY <1>1, <1>5, <2>1 DEF NextChain
  <2>3. /\ d.pc = "iterate" /\ SameCall(c, d) /\ d.i = c.i + 1 /\ d.chain = chain
    BY <1>1, <2>2 DEF SameCall, Fields
  <2>4. Reaches(c, t)
    BY <1>1, IteratorReaches
  <2>5. c.i \in DOMAIN t /\ c.i + 1 \in 0 .. Size(t) /\ c.i \in Nat
    BY <1>5, <2>4 DEF Reaches, WasTable, IsTable, HasSize
  <2>6. IsChain(chain) /\ AliveOnce(chain) /\ \A n \in DOMAIN chain : getIndex(KeyOf(chain[n]), t) = c.i
    BY <2>1, <2>4, <2>5 DEF Reaches, WasTable, IsTable
  <2>7. ASSUME NEW y \in DOMAIN c.yielded
        PROVE  /\ getIndex(c.yielded[y], t) < c.i + 1
               /\ \A n \in DOMAIN chain : KeyOf(chain[n]) # c.yielded[y]
    <3>1. getIndex(c.yielded[y], t) < c.i /\ c.yielded[y] \in Keys
      BY <2>4 DEF Reaches
    <3>2. getIndex(c.yielded[y], t) \in Nat
      BY <2>4, <3>1, IndexIn DEF Reaches, WasTable, IsTable, HasSize
    <3> QED
      BY <2>5, <2>6, <3>1, <3>2
  <2>8. Iterating(d, t)
    BY <2>3, <2>4, <2>5, <2>6, <2>7 DEF Iterating, Reaches, SameCall
  <2> QED
    BY <1>1, <1>2, <1>3, <2>3, <2>8, IteratesOn DEF SameCall
<1> QED
  BY <1>4, <1>5

LEMMA NextEntryKeepsCInv ==
    ASSUME TInv, TInv', CInv, NEW p \in Threads, NextEntry(p) PROVE CInv'
<1>. PICK c : c = call[p]
  OBVIOUS
<1>. PICK d : d = call'[p]
  OBVIOUS
<1>. PICK t : t = View(c)
  OBVIOUS
<1>1. /\ DOMAIN call = Threads /\ c.pc = "iterate" /\ DOMAIN c = Fields /\ CallInv(c)
      /\ c.chain # <<>> /\ table' = table /\ entries' = entries /\ released' = released
  BY DEF TInv, CallsOK, CallOK, NextEntry, CInv
<1>2. Still /\ Steady
  BY SameSteady DEF NextEntry, Still, ValuesStay
<1>3. \A q \in Threads \ {p} : call'[q] = call[q]
  BY <1>1 DEF NextEntry
<1>4. PICK chain : chain = c.chain
  OBVIOUS
<1>5. PICK r : r = Head(chain)
  OBVIOUS
<1>6. PICK tail : tail = Tail(chain)
  OBVIOUS
<1>7. PICK yielded : yielded = IF Alive(r) THEN Append(c.yielded, KeyOf(r)) ELSE c.yielded
  OBVIOUS
<1>8. d = [c EXCEPT !.chain = tail, !.yielded = yielded]
  BY <1>1, <1>4, <1>5, <1>6, <1>7 DEF NextEntry, KeyOf
<1>9. /\ d.pc = "iterate" /\ d.op = c.op /\ d.key = c.key /\ d.result = c.result /\ d.seen = c.seen
      /\ d.fresh = c.fresh /\ d.frozen = c.frozen
      /\ d.i = c.i /\ d.chain = tail /\ d.yielded = yielded
  BY <1>1, <1>8 DEF Fields
<1>10. Reaches(c, t)
  BY <1>1, IteratorReaches
<1>11. IsChain(chain) /\ chain # <<>> /\ AliveOnce(chain)
  BY <1>1, <1>4, <1>10 DEF Reaches
<1>12. /\ chain[1] = r /\ 1 \in DOMAIN chain /\ IsChain(tail)
       /\ \A n \in DOMAIN tail : \E m \in DOMAIN chain : m # 1 /\ tail[n] = chain[m]
  <2>1. /\ chain[1] = Head(chain) /\ 1 \in DOMAIN chain /\ IsChain(Tail(chain))
        /\ \A n \in DOMAIN Tail(chain) : \E m \in DOMAIN chain : m # 1 /\ Tail(chain)[n] = chain[m]
    BY <1>11, TailChain
  <2> QED
    BY <1>5, <1>6, <2>1
<1>13. AliveOnce(tail)
  <2>1. ASSUME NEW m \in DOMAIN tail, NEW n \in DOMAIN tail, Alive(tail[m]), Alive(tail[n]),
               KeyOf(tail[m]) = KeyOf(tail[n])
        PROVE  m = n
    <3>1. PICK x \in DOMAIN chain : tail[m] = chain[x]
      BY <1>12
    <3>2. PICK y \in DOMAIN chain : tail[n] = chain[y]
      BY <1>12
    <3>3. x = y
      BY <1>11, <2>1, <3>1, <3>2 DEF AliveOnce
    <3>4. tail[m].e = tail[n].e
      BY <3>1, <3>2, <3>3
    <3> QED
      BY <1>12, <3>4 DEF IsChain
  <2> QED
    BY <2>1 DEF AliveOnce
<1>14. /\ \A n \in DOMAIN tail : getIndex(KeyOf(tail[n]), t) = c.i - 1
       /\ \A n \in DOMAIN tail, y \in DOMAIN c.yielded :
             Alive(tail[n]) => KeyOf(tail[n]) # c.yielded[y]
  BY <1>4, <1>10, <1>12 DEF Reaches
<1>15. CASE ~Alive(r)
  <2>1. yielded = c.yielded
    BY <1>7, <1>15
  <2>2. Iterating(d, t)
    BY <1>9, <1>10, <1>12, <1>13, <1>14, <2>1 DEF Iterating, Reaches
  <2> QED
    BY <1>1, <1>2, <1>3, <1>9, <2>2, IteratesOn
<1>16. CASE Alive(r)
  <2>1. PICK key : key = KeyOf(r)
    OBVIOUS
  <2>2. key \in Keys
    <3>1. Made(r)
      BY <1>11, <1>12 DEF IsChain
    <3>2. entries[r.e] \in Entry
      BY <3>1 DEF TInv, EntriesOK, Made
    <3> QED
      BY <2>1, <3>2 DEF KeyOf, Entry
  <2>3. PICK old : old = c.yielded
    OBVIOUS
  <2>4. old \in Seq(Keys)
    BY <1>10, <2>3 DEF Reaches
  <2>5. yielded = Append(old, key)
    BY <1>7, <1>16, <2>1, <2>3
  <2>6. /\ yielded \in Seq(Keys)
        /\ \A y \in DOMAIN yielded :
              \/ y \in DOMAIN old /\ yielded[y] = old[y]
              \/ y \notin DOMAIN old /\ y = Len(old) + 1 /\ yielded[y] = key
    <3>1. /\ yielded \in Seq(Keys) /\ Len(yielded) = Len(old) + 1
          /\ \A y \in 1 .. Len(old) : yielded[y] = old[y]
          /\ yielded[Len(old) + 1] = key
      BY <2>2, <2>4, <2>5, AppendProperties
    <3>2. DOMAIN yielded = 1 .. Len(old) + 1 /\ DOMAIN old = 1 .. Len(old) /\ Len(old) \in Nat
      BY <2>4, <3>1, LenProperties
    <3> QED
      BY <3>1, <3>2
  <2>7. getIndex(key, t) = c.i - 1 /\ c.i \in Nat
    BY <1>4, <1>10, <1>12, <2>1 DEF Reaches
  <2>8. \A y \in DOMAIN old : old[y] # key
    BY <1>4, <1>10, <1>12, <1>16, <2>1, <2>3 DEF Reaches
  <2>9. \A n \in DOMAIN tail : Alive(tail[n]) => KeyOf(tail[n]) # key
    BY <1>11, <1>12, <1>16, <2>1 DEF AliveOnce
  <2>10. ASSUME NEW y \in DOMAIN yielded
         PROVE  /\ getIndex(yielded[y], t) < c.i
                /\ \A n \in DOMAIN tail : Alive(tail[n]) => KeyOf(tail[n]) # yielded[y]
    <3>1. CASE yielded[y] = key
      BY <2>7, <2>9, <3>1
    <3>2. CASE y \in DOMAIN old /\ yielded[y] = old[y]
      BY <1>10, <1>14, <2>3, <3>2 DEF Reaches
    <3> QED
      BY <2>6, <3>1, <3>2
  <2>11. ASSUME NEW x \in DOMAIN yielded, NEW y \in DOMAIN yielded, yielded[x] = yielded[y]
         PROVE  x = y
    <3>1. CASE x \in DOMAIN old /\ y \in DOMAIN old
      BY <1>10, <2>3, <2>6, <2>11, <3>1 DEF Reaches
    <3>2. CASE x \notin DOMAIN old \/ y \notin DOMAIN old
      BY <2>6, <2>8, <2>11, <3>2
    <3> QED
      BY <3>1, <3>2
  <2>12. Iterating(d, t)
    <3>1. c.i \in 0 .. Size(t)
      BY <1>10 DEF Reaches
    <3> QED
      BY <1>9, <1>12, <1>13, <1>14, <2>6, <2>10, <2>11, <3>1 DEF Iterating
  <2> QED
    BY <1>1, <1>2, <1>3, <1>9, <2>12, IteratesOn
<1> QED
  BY <1>15, <1>16

------------------------------------------------------------------------------
(* Writers and the collector.                                              *)

LEMMA ObservedIs ==
    ASSUME NEW calls, NEW q \in Threads, NEW c, c = calls[q], DOMAIN c = Fields,
           NEW d, d = Observed(calls)[q]
    PROVE  /\ c.pc # "idle" /\ Asks(c.op) => d.seen = c.seen \cup {ValueOf(map', entries', c.key)}
           /\ ~(c.pc # "idle" /\ Asks(c.op)) => d = c
<1>1. CASE calls[q].pc # "idle" /\ Asks(calls[q].op)
  <2>1. PICK value : value = ValueOf(map', entries', calls[q].key)
    OBVIOUS
  <2>2. d = [calls[q] EXCEPT !.seen = @ \cup {value}]
    BY <1>1, <2>1, Zenon DEF Observed
  <2>3. d.seen = c.seen \cup {value}
    BY <2>2 DEF Fields
  <2> QED
    BY <1>1, <2>1, <2>3
<1>2. CASE ~(calls[q].pc # "idle" /\ Asks(calls[q].op))
  <2>1. d = calls[q]
    BY <1>2, Zenon DEF Observed
  <2> QED
    BY <1>2, <2>1
<1> QED
  BY <1>1, <1>2

LEMMA ObservedWatches ==
    ASSUME TInv, CInv, NEW q \in Threads, NEW calls, calls[q] = call[q], call' = Observed(calls),
           DOMAIN table' = DOMAIN table
    PROVE  Watches(call[q], call'[q])
<1>1. PICK y : y = call[q]
  OBVIOUS
<1>2. PICK z : z = call'[q]
  OBVIOUS
<1>3. DOMAIN y = Fields /\ y = calls[q] /\ z = Observed(calls)[q]
  BY <1>1, <1>2 DEF TInv, CallsOK, CallOK
<1>4. /\ z.pc = y.pc /\ z.op = y.op /\ z.key = y.key /\ z.expect = y.expect
      /\ z.result = y.result /\ z.i = y.i /\ z.chain = y.chain /\ z.yielded = y.yielded
  BY <1>3, ObservedFields
<1>5. z.excused = y.excused
  BY <1>3, ObservedFields
<1>6. z.fresh = y.fresh /\ z.frozen = y.frozen
  BY <1>3, ObservedFields
<1>7. y.fresh \in BOOLEAN
  BY <1>1 DEF CInv, CallInv, IteratesOK
<1>8. /\ y.pc # "idle" /\ Asks(y.op) => z.seen = y.seen \cup {ValueOf(map', entries', y.key)}
      /\ ~(y.pc # "idle" /\ Asks(y.op)) => z = y
  BY <1>3, ObservedIs
<1>9. /\ y.seen \subseteq z.seen /\ (y.pc = "idle" => z.seen = y.seen)
      /\ y.pc # "idle" /\ Asks(y.op) => ValueOf(map, entries, y.key)' \in z.seen
  BY <1>8 DEF ValueOf
<1>10. Watches(y, z)
  BY <1>4, <1>5, <1>6, <1>7, <1>9 DEF Watches
<1> QED
  BY <1>1, <1>2, <1>10

\* A task of p.
LEMMA TaskKeepsCInv ==
    ASSUME TInv, TInv', CInv, Steady, DOMAIN table' = DOMAIN table, NEW p \in Threads,
           NEW calls, \A q \in Threads \ {p} : calls[q] = call[q], call' = Observed(calls),
           CallInv(call[p])'
    PROVE  CInv'
BY ObservedWatches, OthersWatch

\* The task of p ends its call.
LEMMA TaskEnds ==
    ASSUME TInv, TInv', CInv, Steady, DOMAIN table' = DOMAIN table, NEW p \in Threads,
           NEW c, c = call[p], NEW x, call' = Observed([call EXCEPT ![p] = Done(c, x)]),
           Asks(c.op) => x \in c.seen
    PROVE  CInv'
<1>1. PICK calls : calls = [call EXCEPT ![p] = Done(c, x)]
  OBVIOUS
<1>2. PICK y : y = calls[p]
  OBVIOUS
<1>3. y = Done(c, x) /\ \A q \in Threads \ {p} : calls[q] = call[q]
  BY <1>1, <1>2 DEF TInv, CallsOK
<1>4. DOMAIN y = Fields /\ y.pc = "idle"
  BY <1>3, DoneFields
<1>5. PICK d : d = call'[p]
  OBVIOUS
<1>6. d = Observed(calls)[p]
  BY <1>1, <1>5
<1>7. d = y
  BY <1>2, <1>4, <1>6, ObservedIs
<1>8. CallInv(d)'
  BY <1>3, <1>7, DoneSound
<1>9. CallInv(call[p])'
  BY <1>5, <1>8
<1> QED
  BY <1>1, <1>3, <1>9, TaskKeepsCInv

LEMMA SetValueSteady ==
    ASSUME TInv, NEW e \in DOMAIN entries, map[entries[e].key] = e, NEW v \in Values,
           SetValue(e, v), map' = map, released' = released
    PROVE  Steady
<1>1. entries' = [entries EXCEPT ![e].value = v] /\ EntriesOK
  BY DEF SetValue, TInv
<1>2. Grows
  BY <1>1, SetValueKeeps
<1>3. ASSUME NEW f \in DOMAIN entries
      PROVE  /\ entries'[f].collected = entries[f].collected
             /\ entries'[f].value = entries[f].value \/ map'[entries[f].key] = f
  <2>1. entries[f] \in Entry
    BY <1>1 DEF EntriesOK
  <2> QED
    BY <1>1, <2>1 DEF Entry
<1>4. \A r : Made(r) => (Alive(r)' <=> Alive(r))
  BY <1>3 DEF Made, Alive
<1> QED
  BY <1>2, <1>3, <1>4 DEF Steady

\* A task that finds no reference of its key.
LEMMA TaskMisses ==
    ASSUME TInv, lock = None, NEW k \in Keys, NEW i, i = getIndex(k, table),
           findInChain(table[i], k) = <<>>
    PROVE  map[k] = 0
BY TaskFinds

LEMMA ReplaceKeepsCInv ==
    ASSUME TInv, TInv', CInv, NEW p \in Threads, Replace(p) PROVE CInv'
<1>. PICK c : c = call[p]
  OBVIOUS
<1>. PICK d : d = call'[p]
  OBVIOUS
<1>1. /\ DOMAIN call = Threads /\ c.pc = "task" /\ c.op = "replace" /\ lock = None
      /\ c.value \in Values /\ c.key \in Keys /\ CallInv(c) /\ Asks(c.op)
      /\ table' = table /\ map' = map /\ released' = released
  BY DEF Replace, TInv, CallsOK, CallOK, Keyless, CInv, Asks
<1>2. ValueOf(map, entries, c.key) \in c.seen
  BY <1>1 DEF CallInv, SeesOK
<1>3. PICK i : i = getIndex(c.key, table)
  OBVIOUS
<1>4. PICK found : found = findInChain(table[i], c.key)
  OBVIOUS
<1>5. found = Found(c)
  BY <1>3, <1>4 DEF Found
<1>6. CASE found # <<>> /\ AsExpected(c, Head(found))
  <2>1. PICK n \in DOMAIN table[i] :
           /\ Head(found) = table[i][n] /\ Made(table[i][n])
           /\ KeyOf(table[i][n]) = c.key /\ map[c.key] = table[i][n].e
    BY <1>1, <1>3, <1>4, <1>6, TaskFinds
  <2>2. PICK e : e = Head(found).e
    OBVIOUS
  <2>3. /\ SetValue(e, c.value) /\ e \in DOMAIN entries /\ entries[e].key = c.key
        /\ map[c.key] = e
    BY <1>5, <1>6, <2>1, <2>2 DEF Replace, Made, KeyOf
  <2>4. Steady
    BY <1>1, <2>3, SetValueSteady
  <2>5. PICK x : x = entries[e].value
    OBVIOUS
  <2>6. call' = Observed([call EXCEPT ![p] = Done(c, x)])
    BY <1>5, <1>6, <2>2, <2>5 DEF Replace
  <2>7. e # 0
    BY <2>3, LenProperties DEF TInv, EntriesOK
  <2>8. x \in c.seen
    BY <1>2, <2>3, <2>5, <2>7 DEF ValueOf
  <2> QED
    BY <1>1, <2>4, <2>6, <2>8, TaskEnds
<1>7. CASE ~(found # <<>> /\ AsExpected(c, Head(found)))
  <2>1. d = Done(c, None) /\ entries' = entries /\ \A q \in Threads \ {p} : call'[q] = call[q]
    BY <1>1, <1>5, <1>7 DEF Replace
  <2>2. Still /\ Steady
    BY <1>1, <2>1, SameSteady DEF Still, ValuesStay
  <2>3. None \in c.seen \/ (c.expect # None /\ c.seen # {c.expect})
    <3>1. CASE found = <<>>
      BY <1>1, <1>2, <1>3, <1>4, <3>1, TaskMisses DEF ValueOf
    <3>2. CASE found # <<>>
      <4>1. PICK n \in DOMAIN table[i] :
               /\ Head(found) = table[i][n] /\ Made(table[i][n]) /\ map[c.key] = table[i][n].e
        BY <1>1, <1>3, <1>4, <3>2, TaskFinds
      <4>2. Head(found).e # 0 /\ map[c.key] = Head(found).e
        BY <4>1, LenProperties DEF Made, TInv, EntriesOK
      <4>3. c.expect # None /\ c.expect # entries[map[c.key]].value
        BY <1>7, <3>2, <4>2 DEF AsExpected
      <4> QED
        BY <1>2, <4>2, <4>3 DEF ValueOf
    <3> QED
      BY <3>1, <3>2
  <2>4. CallInv(d)'
    BY <2>1, <2>3, DoneSound
  <2>5. CallInv(call[p])'
    BY <2>4
  <2> QED
    BY <2>1, <2>2, <2>5, StillKeepsCInv
<1> QED
  BY <1>6, <1>7

LEMMA AddSteady ==
    ASSUME TInv, NEW key \in Keys, map[key] = 0, NEW value, Add(key, value), released' = released,
           Grows
    PROVE  Steady
<1>1. EntriesOK /\ entries' = Append(entries, [key |-> key, value |-> value, collected |-> FALSE, gen |-> 1])
      /\ map' = [map EXCEPT ![key] = Len(entries) + 1]
  BY DEF Add, TInv
<1>2. \A f \in DOMAIN entries : entries'[f] = entries[f]
  BY <1>1 DEF EntriesOK
<1>3. \A r : Made(r) => (Alive(r)' <=> Alive(r))
  BY <1>2 DEF Made, Alive
<1>4. \A k \in Keys : map'[k] = map[k] \/ map'[k] = 0 \/ map[k] = 0
  BY <1>1 DEF EntriesOK
<1> QED
  BY <1>2, <1>3, <1>4 DEF Steady

LEMMA PutKeepsCInv ==
    ASSUME TInv, TInv', CInv, NEW p \in Threads, Put(p) PROVE CInv'
<1>. PICK c : c = call[p]
  OBVIOUS
<1>1. /\ DOMAIN call = Threads /\ c.pc = "task" /\ c.op \in {"put", "putIfAbsent"} /\ lock = None
      /\ c.value \in Values /\ c.key \in Keys
      /\ released' = released /\ EntriesOK
  BY DEF Put, TInv, CallsOK, CallOK, Keyless
<1>2. ~Asks(c.op) /\ call' = Observed([call EXCEPT ![p] = Done(c, None)])
  BY <1>1 DEF Asks, Put
<1>3. PICK i : i = getIndex(c.key, table)
  OBVIOUS
<1>4. PICK found : found = findInChain(table[i], c.key)
  OBVIOUS
<1>5. found = Found(c)
  BY <1>3, <1>4 DEF Found
<1>6. Steady /\ DOMAIN table' = DOMAIN table
  <2>1. CASE found = <<>>
    <3>1. Add(c.key, c.value)
      BY <1>5, <2>1 DEF Put
    <3>2. map[c.key] = 0
      BY <1>1, <1>3, <1>4, <2>1, TaskMisses
    <3>3. Grows
      <4>1. IsTable(table) /\ CurrentTable(table) /\ HoldsMap
        BY <1>1, KeyAssumption DEF TInv, TableOK
      <4> QED
        BY <1>1, <3>1, <3>2, <4>1, AddKeeps
    <3>4. DOMAIN table' = DOMAIN table
      BY <3>1 DEF Add
    <3> QED
      BY <1>1, <3>1, <3>2, <3>3, <3>4, AddSteady
  <2>2. CASE found # <<>>
    <3>1. PICK n \in DOMAIN table[i] :
             /\ Head(found) = table[i][n] /\ Made(table[i][n])
             /\ KeyOf(table[i][n]) = c.key /\ map[c.key] = table[i][n].e
      BY <1>1, <1>3, <1>4, <2>2, TaskFinds
    <3>2. PICK e : e = Head(found).e
      OBVIOUS
    <3>3. e \in DOMAIN entries /\ map[entries[e].key] = e
      BY <3>1, <3>2 DEF Made, KeyOf
    <3>4. table' = table /\ map' = map /\ (SetValue(e, c.value) \/ entries' = entries)
      BY <1>5, <2>2, <3>2 DEF Put
    <3>5. Steady
      BY <1>1, <3>3, <3>4, SetValueSteady, SameSteady
    <3> QED
      BY <3>4, <3>5
  <2> QED
    BY <2>1, <2>2
<1>7. PICK x : x = None
  OBVIOUS
<1> QED
  BY <1>2, <1>6, <1>7, TaskEnds

LEMMA RemoveKeepsCInv ==
    ASSUME TInv, TInv', CInv, NEW p \in Threads, Remove(p) PROVE CInv'
<1>. PICK c : c = call[p]
  OBVIOUS
<1>. PICK d : d = call'[p]
  OBVIOUS
<1>1. /\ DOMAIN call = Threads /\ DOMAIN c = Fields /\ c.pc = "task" /\ c.op = "remove" /\ lock = None
      /\ c.key \in Keys /\ CallInv(c) /\ Asks(c.op)
      /\ table' = table /\ entries' = entries
  BY DEF Remove, Enqueued, TInv, CallsOK, CallOK, Keyless, CInv, Asks
<1>2. ValueOf(map, entries, c.key) \in c.seen /\ (c.result # None => c.result \in c.seen)
  BY <1>1 DEF CallInv, SeesOK
<1>i. c.fresh /\ c.fresh \in BOOLEAN /\ c.yielded = <<>>
  BY <1>1 DEF CallInv, IteratesOK
<1>3. PICK i : i = getIndex(c.key, table)
  OBVIOUS
<1>4. PICK found : found = findInChain(table[i], c.key)
  OBVIOUS
<1>5. found = Found(c)
  BY <1>3, <1>4 DEF Found
\* A call that waits for the purge after its task.
<1>6. ASSUME d.pc = "poll", d.op = c.op, d.yielded = c.yielded, d.fresh = c.fresh,
             SeesOK(d)',
             d.result = None => None \in d.seen \/ (d.expect # None /\ \E v \in d.seen : v # d.expect)
      PROVE  CallInv(call[p])'
  <2>1. ReadsOK(d)'
    BY <1>6 DEF ReadsOK
  <2>2. HasReason(d)'
    BY <1>6 DEF HasReason, Missed
  <2>3. IteratesOK(d)'
    BY <1>6, <1>i DEF IteratesOK
  <2> QED
    BY <1>6, <2>1, <2>2, <2>3 DEF CallInv
<1>7. CASE found # <<>> /\ AsExpected(c, Head(found))
  <2>1. PICK n \in DOMAIN table[i] :
           /\ Head(found) = table[i][n] /\ Made(table[i][n])
           /\ KeyOf(table[i][n]) = c.key /\ map[c.key] = table[i][n].e
    BY <1>1, <1>3, <1>4, <1>7, TaskFinds
  <2>2. PICK r : r = Head(found)
    OBVIOUS
  <2>3. Made(r) /\ KeyOf(r) = c.key /\ map[c.key] = r.e /\ r.e # 0
    BY <2>1, <2>2, LenProperties DEF Made, TInv, EntriesOK
  <2>4. PICK x : x = entries[r.e].value
    OBVIOUS
  <2>5. PICK y : y = [c EXCEPT !.pc = "poll", !.result = x]
    OBVIOUS
  <2>6. PICK calls : calls = [call EXCEPT ![p] = y]
    OBVIOUS
  <2>7. /\ released' = released \cup {r} /\ map' = [map EXCEPT ![c.key] = 0]
        /\ call' = Observed(calls)
    BY <1>1, <1>5, <1>7, <2>2, <2>4, <2>5, <2>6 DEF Remove, Enqueued
  <2>8. calls[p] = y /\ \A q \in Threads \ {p} : calls[q] = call[q]
    BY <1>1, <2>6
  <2>9. /\ DOMAIN y = Fields /\ y.pc = "poll" /\ y.result = x /\ y.op = c.op /\ y.key = c.key
        /\ y.seen = c.seen /\ y.expect = c.expect /\ y.yielded = c.yielded /\ y.fresh = c.fresh
    BY <1>1, <2>5 DEF Fields
  <2>10. d = Observed(calls)[p]
    BY <2>7
  <2>11. /\ d.pc = "poll" /\ d.op = c.op /\ d.key = c.key /\ d.result = x /\ d.expect = c.expect
         /\ d.yielded = c.yielded
    BY <2>8, <2>9, <2>10, ObservedFields
  <2>12. d.fresh = c.fresh
    BY <2>8, <2>9, <2>10, ObservedFields
  <2>13. d.seen = c.seen \cup {ValueOf(map', entries', c.key)}
    BY <1>1, <2>8, <2>9, <2>10, ObservedIs
  <2>14. x \in c.seen
    BY <1>2, <2>3, <2>4 DEF ValueOf
  <2>15. SeesOK(d)'
    BY <2>11, <2>13, <2>14 DEF SeesOK, ValueOf
  <2>16. CallInv(call[p])'
    BY <1>6, <2>11, <2>12, <2>13, <2>14, <2>15
  <2>17. Steady
    <3>1. Grows
      <4>1. ASSUME NEW f \in DOMAIN entries PROVE entries[f].gen \in Nat
        <5>1. entries[f] \in Entry
          BY <4>1 DEF TInv, EntriesOK
        <5> QED
          BY <5>1 DEF Entry
      <4> QED
        BY <1>1, <2>7, <4>1 DEF Grows
    <3>2. ASSUME NEW s, Made(s), Alive(s), ~Alive(s)' PROVE map'[KeyOf(s)] = 0
      <4>1. s = r
        BY <1>1, <2>7, <3>2 DEF Alive
      <4> QED
        BY <1>1, <2>3, <2>7, <4>1 DEF TInv, EntriesOK
    <3>3. \A k \in Keys : map'[k] = map[k] \/ map'[k] = 0
      BY <2>7 DEF TInv, EntriesOK
    <3> QED
      BY <1>1, <3>1, <3>2, <3>3 DEF Steady
  <2> QED
    BY <1>1, <2>7, <2>8, <2>16, <2>17, TaskKeepsCInv
<1>8. CASE ~(found # <<>> /\ AsExpected(c, Head(found)))
  <2>1. /\ call' = [call EXCEPT ![p] = [c EXCEPT !.pc = "poll"]]
        /\ released' = released /\ map' = map
    BY <1>1, <1>5, <1>8 DEF Remove, Enqueued
  <2>2. \A q \in Threads \ {p} : call'[q] = call[q]
    BY <1>1, <2>1
  <2>3. Still /\ Steady
    BY <1>1, <2>1, SameSteady DEF Still, ValuesStay
  <2>4. d.pc = "poll" /\ SameCall(c, d)
    BY <1>1, <2>1 DEF SameCall, Fields
  <2>5. None \in c.seen \/ (c.expect # None /\ \E v \in c.seen : v # c.expect)
    <3>1. CASE found = <<>>
      BY <1>1, <1>2, <1>3, <1>4, <3>1, TaskMisses DEF ValueOf
    <3>2. CASE found # <<>>
      <4>1. PICK n \in DOMAIN table[i] :
               /\ Head(found) = table[i][n] /\ Made(table[i][n]) /\ map[c.key] = table[i][n].e
        BY <1>1, <1>3, <1>4, <3>2, TaskFinds
      <4>2. Head(found).e # 0 /\ map[c.key] = Head(found).e
        BY <4>1, LenProperties DEF Made, TInv, EntriesOK
      <4>3. c.expect # None /\ c.expect # entries[map[c.key]].value
        BY <1>8, <3>2, <4>2 DEF AsExpected
      <4> QED
        BY <1>2, <4>2, <4>3 DEF ValueOf
    <3> QED
      BY <3>1, <3>2
  <2>6. SeesOK(d)'
    BY <1>1, <1>2, <2>1, <2>4 DEF SeesOK, SameCall, ValueOf
  <2>7. CallInv(call[p])'
    BY <1>6, <2>4, <2>5, <2>6 DEF SameCall
  <2> QED
    BY <2>2, <2>3, <2>7, StillKeepsCInv
<1> QED
  BY <1>7, <1>8

LEMMA ClearKeepsCInv ==
    ASSUME TInv, TInv', CInv, NEW p \in Threads, Clear(p) PROVE CInv'
<1>. PICK c : c = call[p]
  OBVIOUS
<1>1. /\ DOMAIN call = Threads /\ c.op = "clear" /\ entries' = entries /\ released' = released
      /\ map' = [k \in Keys |-> 0] /\ EntriesOK
  BY DEF Clear, TInv, CallsOK
<1>2. Steady
  <2>1. Grows
    <3>1. ASSUME NEW f \in DOMAIN entries PROVE entries[f].gen \in Nat
      <4>1. entries[f] \in Entry
        BY <1>1, <3>1 DEF EntriesOK
      <4> QED
        BY <4>1 DEF Entry
    <3> QED
      BY <1>1, <3>1 DEF Grows
  <2>2. \A r : Alive(r)' = Alive(r)
    BY <1>1 DEF Alive
  <2> QED
    BY <1>1, <2>1, <2>2 DEF Steady
<1>3. PICK calls : calls = [call EXCEPT ![p] = Done(c, None)]
  OBVIOUS
<1>4. PICK replaced : replaced = Replaced(calls)
  OBVIOUS
<1>5. call' = Observed(replaced)
  BY <1>3, <1>4 DEF Clear
<1>6. CallInv(call[p])'
  <2>1. PICK x : x = calls[p]
    OBVIOUS
  <2>2. PICK y : y = replaced[p]
    OBVIOUS
  <2>3. PICK d : d = call'[p]
    OBVIOUS
  <2>4. x = Done(c, None)
    BY <1>1, <1>3, <2>1
  <2>5. DOMAIN x = Fields /\ x.pc = "idle"
    BY <2>4, DoneFields
  <2>6. y = x
    BY <1>4, <2>1, <2>2, <2>5, ReplacedIs
  <2>7. d = y
    <3>1. d = Observed(replaced)[p]
      BY <1>5, <2>3
    <3>2. DOMAIN y = Fields /\ y.pc = "idle"
      BY <2>5, <2>6
    <3> QED
      BY <2>2, <3>1, <3>2, ObservedIs
  <2>8. ~Asks(c.op)
    BY <1>1 DEF Asks
  <2>9. CallInv(d)'
    BY <2>4, <2>6, <2>7, <2>8, DoneSound
  <2> QED
    BY <2>3, <2>9
<1>7. ASSUME NEW q \in Threads \ {p} PROVE Watches(call[q], call'[q])
  <2>1. PICK x : x = call[q]
    OBVIOUS
  <2>2. PICK y : y = replaced[q]
    OBVIOUS
  <2>3. PICK z : z = call'[q]
    OBVIOUS
  <2>4. DOMAIN x = Fields /\ x = calls[q] /\ y = Replaced(calls)[q]
    BY <1>1, <1>3, <1>4, <1>7, <2>1, <2>2 DEF TInv, CallsOK, CallOK
  <2>o. q \in Threads /\ y = replaced[q] /\ z = Observed(replaced)[q]
    BY <1>5, <1>7, <2>2, <2>3
  <2>d. DOMAIN y = Fields
    BY <2>4, ReplacedFields
  <2>5. /\ y.pc = x.pc /\ y.op = x.op /\ y.key = x.key /\ y.expect = x.expect
        /\ y.result = x.result /\ y.seen = x.seen /\ y.i = x.i /\ y.chain = x.chain
        /\ y.yielded = x.yielded
    BY <2>4, ReplacedFields
  <2>6. y.excused = x.excused
    BY <2>4, ReplacedFields
  <2>7. /\ x.pc = "iterate" /\ x.fresh => ~y.fresh /\ y.fresh \in BOOLEAN /\ y.frozen = table
        /\ ~(x.pc = "iterate" /\ x.fresh) => y = x
    BY <2>4, ReplacedIs
  <2>8. /\ z.pc = y.pc /\ z.op = y.op /\ z.key = y.key /\ z.expect = y.expect
        /\ z.result = y.result /\ z.i = y.i /\ z.chain = y.chain /\ z.yielded = y.yielded
    BY <2>o, <2>d, ObservedFields
  <2>9. z.excused = y.excused
    BY <2>o, <2>d, ObservedFields
  <2>10. z.fresh = y.fresh /\ z.frozen = y.frozen
    BY <2>o, <2>d, ObservedFields
  <2>11. x.fresh \in BOOLEAN
    BY <1>7, <2>1 DEF CInv, CallInv, IteratesOK
  <2>12. /\ y.pc # "idle" /\ Asks(y.op) => z.seen = y.seen \cup {ValueOf(map', entries', y.key)}
         /\ ~(y.pc # "idle" /\ Asks(y.op)) => z = y
    BY <2>o, <2>d, ObservedIs
  <2>13. /\ x.seen \subseteq z.seen /\ (x.pc = "idle" => z.seen = x.seen)
         /\ x.pc # "idle" /\ Asks(x.op) => ValueOf(map, entries, x.key)' \in z.seen
    BY <2>5, <2>12 DEF ValueOf
  <2>14. /\ z.fresh \in BOOLEAN
         /\ \/ z.fresh = x.fresh /\ z.frozen = x.frozen /\ ~(x.pc = "iterate" /\ x.fresh)
            \/ x.pc = "iterate" /\ x.fresh /\ ~z.fresh /\ z.frozen = table
    BY <2>7, <2>10, <2>11
  <2>15. z.excused = x.excused
    BY <2>6, <2>9
  <2>16. Watches(x, z)
    BY <2>5, <2>8, <2>13, <2>14, <2>15 DEF Watches
  <2> QED
    BY <2>1, <2>3, <2>16
<1> QED
  BY <1>2, <1>6, <1>7, OthersWatch

\* Nobody does anything, all look on.
LEMMA AllWatch ==
    ASSUME TInv, TInv', CInv, Steady, \A q \in Threads : Watches(call[q], call'[q])
    PROVE  CInv'
BY WatchingKeeps DEF CInv

LEMMA CollectKeepsCInv ==
    ASSUME TInv, TInv', CInv, NEW e \in DOMAIN entries, Collect(e) PROVE CInv'
<1>1. /\ EntriesOK
      /\ entries' = [entries EXCEPT ![e].collected = TRUE]
      /\ map' = [k \in Keys |-> IF map[k] = e THEN 0 ELSE map[k]]
      /\ call' = Observed(call) /\ table' = table /\ released' = released
  BY DEF TInv, Collect
<1>2. ASSUME NEW f \in DOMAIN entries
      PROVE  /\ f \in DOMAIN entries' /\ entries'[f].key = entries[f].key
             /\ entries'[f].gen = entries[f].gen /\ entries[f].gen \in Nat
             /\ entries'[f].value = entries[f].value
             /\ f # e => entries'[f] = entries[f]
  <2>1. entries[f] \in Entry
    BY <1>1, <1>2 DEF EntriesOK
  <2>2. entries[f].gen \in Nat
    BY <2>1 DEF Entry
  <2>3. CASE f = e
    <3>1. f \in DOMAIN entries' /\ entries'[f] = [entries[f] EXCEPT !.collected = TRUE]
      BY <1>1, <2>3
    <3> QED
      BY <2>1, <2>2, <2>3, <3>1 DEF Entry
  <2>4. CASE f # e
    BY <1>1, <1>2, <2>2, <2>4
  <2> QED
    BY <2>3, <2>4
<1>3. ASSUME NEW f \in DOMAIN entries, entries[f].collected PROVE entries'[f].collected
  <2>1. entries[e] \in Entry
    BY <1>1 DEF EntriesOK
  <2>2. entries'[e].collected
    BY <1>1, <2>1 DEF Entry
  <2> QED
    BY <1>2, <1>3, <2>2
<1>4. Grows
  BY <1>1, <1>2, <1>3 DEF Grows
<1>5. ASSUME NEW r, Made(r), Alive(r), ~Alive(r)', map[KeyOf(r)] = r.e PROVE map'[KeyOf(r)] = 0
  <2>1. r.e = e
    BY <1>1, <1>2, <1>5 DEF Alive, Made
  <2>2. KeyOf(r) \in Keys
    BY <1>1, <1>4, <1>5, MadeStays
  <2> QED
    BY <1>1, <1>5, <2>1, <2>2
<1>6. \A k \in Keys : map'[k] = map[k] \/ map'[k] = 0
  BY <1>1
<1>7. Steady
  BY <1>2, <1>4, <1>5, <1>6 DEF Steady
<1>8. \A q \in Threads : Watches(call[q], call'[q])
  BY <1>1, ObservedWatches
<1> QED
  BY <1>7, <1>8, AllWatch

LEMMA SameCallsKeepCInv ==
    ASSUME TInv, TInv', CInv, call' = call, table' = table, entries' = entries,
           released' = released, map' = map
    PROVE  CInv'
<1>1. Still /\ Steady
  BY SameSteady DEF Still, ValuesStay
<1> QED
  BY <1>1, StillWatches, AllWatch

LEMMA InitCInv == Init => CInv
<1>. SUFFICES ASSUME Init, NEW p \in Threads PROVE CallInv(call[p])
  BY DEF CInv
<1>1. PICK c : c = Idle
  OBVIOUS
<1>2. call[p] = c
  BY <1>1 DEF Init
<1>3. c.pc = "idle" /\ c.op = "purge" /\ c.result = None /\ c.yielded = <<>>
  BY <1>1, IdleFields
<1>4. c.fresh = TRUE
  BY <1>1, IdleFields
<1>5. SeesOK(c) /\ ReadsOK(c) /\ HasReason(c)
  BY <1>3 DEF SeesOK, ReadsOK, HasReason, Missed, Asks, Restructuring
<1>6. IteratesOK(c)
  BY <1>3, <1>4 DEF IteratesOK
<1> QED
  BY <1>2, <1>5, <1>6 DEF CallInv

LEMMA NextCInv == TInv /\ TInv' /\ CInv /\ [Next]_vars => CInv'
<1>. SUFFICES ASSUME TInv, TInv', CInv, [Next]_vars PROVE CInv'
  OBVIOUS
<1>1. ASSUME NEW p \in Threads, Begin(p) PROVE CInv'
  BY <1>1, BeginKeepsCInv
<1>2. ASSUME NEW p \in Threads, Restructure(p) PROVE CInv'
  BY <1>2, PollKeepsCInv, LockKeepsCInv, DetachKeepsCInv, TestKeepsCInv, MoveKeepsCInv,
     PublishKeepsCInv DEF Restructure
<1>3. ASSUME NEW p \in Threads, Check(p) PROVE CInv'
  BY <1>3, CheckKeepsCInv
<1>4. ASSUME NEW p \in Threads, doTask(p) PROVE CInv'
  BY <1>4, PutKeepsCInv, ReplaceKeepsCInv, RemoveKeepsCInv, ClearKeepsCInv DEF doTask
<1>5. ASSUME NEW p \in Threads, getReference(p) PROVE CInv'
  BY <1>5, ReadHeadKeepsCInv, FindKeepsCInv, ValueKeepsCInv DEF getReference
<1>6. ASSUME NEW p \in Threads, Iterate(p) PROVE CInv'
  BY <1>6, IteratorKeepsCInv, NextChainKeepsCInv, NextEntryKeepsCInv DEF Iterate
<1>7. ASSUME NEW e \in DOMAIN entries, Collect(e) PROVE CInv'
  BY <1>7, CollectKeepsCInv
<1>8. ASSUME NEW r \in pending, Enqueue(r) PROVE CInv'
  BY <1>8, SameCallsKeepCInv DEF Enqueue
<1>9. CASE UNCHANGED vars
  BY <1>9, SameCallsKeepCInv DEF vars
<1> QED
  BY <1>1, <1>2, <1>3, <1>4, <1>5, <1>6, <1>7, <1>8, <1>9 DEF Next, Step, AllReturned

LEMMA CInvHolds == Spec => []CInv
BY TInvHolds, InitCInv, NextCInv, PTL DEF Spec

------------------------------------------------------------------------------
(* What the calls return.                                                  *)

\* Every value that get, remove or replace returns was the value of the key at
\* some moment of the call.
THEOREM ReturnedWasCurrent == Spec => []ResultsAreCurrent
<1>1. CInv => ResultsAreCurrent
  BY DEF CInv, CallInv, SeesOK, ResultsAreCurrent
<1> QED
  BY <1>1, CInvHolds, PTL

\* A get, remove or replace that misses a key that has been there all the time came
\* upon a purge in place, or upon a count of zero.
THEOREM MissesHaveAReason == Spec => []MissExplained
<1>1. CInv => MissExplained
  BY DEF CInv, CallInv, HasReason, MissExplained
<1> QED
  BY <1>1, CInvHolds, PTL

\* No iterator returns a key twice, whatever is written, purged and moved meanwhile.
THEOREM EveryKeyOnce == Spec => []IteratesOnce
<1>1. CInv => IteratesOnce
  BY DEF CInv, CallInv, IteratesOK, Iterating, IteratesOnce
<1> QED
  BY <1>1, CInvHolds, PTL

=============================================================================
