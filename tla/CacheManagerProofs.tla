--------------------------- MODULE CacheManagerProofs ---------------------------
(***************************************************************************)
(* The software cache, for any number and size of blocks, any number of    *)
(* slots and any limit of dirty blocks: operations in flight never meet,   *)
(* no write is lost, and a checkout for reading sees the last value.       *)
(*                                                                         *)
(* The invariant has two halves.  SInv is about the structure: which slot  *)
(* belongs to which block, what is checked out, mapped and in flight.      *)
(* DInv is about the data, and uses SInv; it needs SetAfterAcquire.        *)
(***************************************************************************)
EXTENDS CacheManager, FiniteSetTheorems, WellFoundedInduction, TLAPS

(* Outside of checkouts, inside of a call.                                 *)
Alone ==
    \/ pc \in {"invalidate", "evict", "set"}
    \/ pc = "complete" /\ op # "checkout"

OnWire(s, o) == \E v \in BOOLEAN : <<s, o, v>> \in wire
InFlight(s, o) == <<s, o>> \in puts \/ OnWire(s, o)

(***************************************************************************)
(* Slots and their blocks.                                                 *)
(***************************************************************************)
Keys ==
    /\ \A s \in Slots : \E i \in Slots : lru[i] = s
    /\ \A i, j \in Slots : lru[i] = lru[j] => i = j
    /\ \A s, t \in Slots : cached[s] = cached[t] /\ cached[s] # NoBlock => s = t
    /\ \A e \in tlb : cached[e[2]] = e[1]
    /\ \A s \in Slots : cached[s] = NoBlock => valid[s] = {} /\ s \notin writing
    /\ \A s \in Slots : dirty[s] \subseteq valid[s]
    /\ \A s \in Slots : dirty[s] # {} =>
          \E i \in DOMAIN dirty_cache_blocks : dirty_cache_blocks[i] = s

(***************************************************************************)
(* Checkouts keep their slot, and the program keeps its rights.            *)
(***************************************************************************)
Mine(r) == \A b \in Part(r) : owner[b] = "mine" /\ (b \in readonly => r.mode = "read")

Users(s) == {h \in held : h.request.blk = cached[s]}

Rights ==
    /\ IsFiniteSet(held)
    /\ \A h, g \in held : h.request = g.request => h = g
    /\ \A s \in Slots : ref_count[s] = Cardinality(Users(s))
    /\ \A h \in held :
          /\ Mine(h.request)
          /\ h.written => h.request.mode # "read"
          /\ \E s \in Slots : cached[s] = h.request.blk /\ h.request.reg \subseteq valid[s]
    /\ pc = "retry" \/ (pc = "complete" /\ op = "checkout") =>
          /\ req \in Requests /\ Mine(req)
          /\ \A h \in held : h.request # req

(***************************************************************************)
(* The places in the code.                                                 *)
(***************************************************************************)
Clean == \A s \in Slots : dirty[s] = {}

Calls ==
    /\ completed => ~fetching /\ to_map = <<>>
    /\ ~fetching => gets = {}
    /\ pc = "run" => completed
    /\ Alone => completed /\ held = {}
    /\ pc \in {"complete", "retry", "invalidate", "evict", "set"} =>
          Clean /\ dirty_cache_blocks = <<>>
    /\ pc \in {"retry", "invalidate", "evict", "set"} => writing = {}
    /\ pc = "complete" => op # "none"
    /\ pc \in {"evict", "set"} \/ (pc = "complete" /\ op \in {"free_coll", "set_readonly"}) =>
          req \in Requests
    /\ SetAfterAcquire /\ (pc = "set" \/ (pc = "complete" /\ op = "set_readonly")) =>
          \A s \in Slots : \A o \in valid[s] : <<cached[s], o>> \in readonly
    /\ ~has_dirty_cache => Clean /\ writing = {}
    /\ pc = "die" => \A s \in Slots : ref_count[s] > 0

(***************************************************************************)
(* Mappings: a slot that is not mapped to its block is on the list to map, *)
(* behind the slot that its block is still mapped to.  What is mapped or   *)
(* fetched is checked out.                                                 *)
(***************************************************************************)
ToMap(s) == \E i \in DOMAIN to_map : to_map[i] = s

Maps ==
    /\ \A s \in Slots : mapped[s] # cached[s] => ToMap(s)
    /\ \A s \in Slots : ToMap(s) => cached[s] # NoBlock /\ Users(s) # {}
    /\ \A b \in Blocks, s \in Slots : vm[b] = s <=> mapped[s] = b
    /\ \A i \in DOMAIN to_map, s \in Slots :
          mapped[s] = cached[to_map[i]] /\ s # to_map[i] =>
             \E k \in 1..(i - 1) : to_map[k] = s
    /\ \A s \in Slots, o \in Offsets : <<s, o>> \in gets => Users(s) # {}

(***************************************************************************)
(* Operations in flight.                                                   *)
(***************************************************************************)
Flight(s, o) ==
    /\ InFlight(s, o) => s \in writing /\ o \in valid[s]
    /\ ~(<<s, o>> \in puts /\ OnWire(s, o))
    /\ ~(<<s, o, TRUE>> \in wire /\ <<s, o, FALSE>> \in wire)
    /\ <<s, o>> \in gets => o \in valid[s] /\ o \notin dirty[s] /\ ~InFlight(s, o)

Flights == \A s \in Slots, o \in Offsets : Flight(s, o)

SInv == TypeOK /\ Keys /\ Rights /\ Calls /\ Maps /\ Flights

(***************************************************************************)
(* Data.  A byte that this rank may use, or everybody may read, is fresh   *)
(* wherever it is valid, except for what is being fetched, and what the    *)
(* program is going to write.                                              *)
(***************************************************************************)
Kept(b) == \E h \in held : h.written /\ b \in Part(h.request)
Shared(b) == owner[b] = "theirs" \/ b \in readonly

ValidFresh(s, o) ==
    LET b == <<cached[s], o>> IN
    o \in valid[s] /\ (owner[b] # "theirs" \/ b \in readonly) =>
        <<s, o>> \in fresh \/ <<s, o>> \in gets \/ b \in Unwritten

(* What is fetched is fresh at home.                                       *)
FetchesHome(s, o) == <<s, o>> \in gets => <<cached[s], o>> \in home

(* What is written back is for no other rank to use.                       *)
WritesMine(s, o) == o \in dirty[s] \/ InFlight(s, o) => ~Shared(<<cached[s], o>>)

(* A put that has read an old value is followed by another one.            *)
StaleOnWire(s, o) ==
    LET b == <<cached[s], o>> IN
    <<s, o, FALSE>> \in wire =>
        b \in Unwritten \/ (<<s, o>> \in fresh /\ (o \in dirty[s] \/ Kept(b)))

(* The last value of a byte is in slot s and will not be forgotten.        *)
Saved(s, b) ==
    /\ cached[s] = b[1] /\ <<s, b[2]>> \in fresh
    /\ \/ b[2] \in dirty[s] \/ <<s, b[2]>> \in puts \/ <<s, b[2], TRUE>> \in wire
       \/ Kept(b)

Somewhere(b) == b \in home \/ b \in Unwritten \/ \E s \in Slots : Saved(s, b)

DInv ==
    /\ \A s \in Slots, o \in Offsets :
          ValidFresh(s, o) /\ FetchesHome(s, o) /\ WritesMine(s, o) /\ StaleOnWire(s, o)
    /\ \A b \in Bytes : (Shared(b) => b \in home) /\ Somewhere(b)

--------------------------------------------------------------------------------
(* A nonempty set of natural numbers has a smallest element.               *)
LEMMA Smallest ==
    ASSUME NEW S \in SUBSET Nat, S # {}
    PROVE  \E x \in S : \A y \in S : x <= y
<1> DEFINE R == OpToRel(<, Nat)
<1>1. IsWellFoundedOn(R, Nat)
  BY NatLessThanWellFounded, Zenon
<1>2. \A x, y \in Nat : x < y => <<x, y>> \in R
  BY DEF OpToRel
<1> HIDE DEF R
<1>3. PICK x \in S : \A y \in S : ~(<<y, x>> \in R)
  BY <1>1, WFMin, Zenon
<1>4. \A y \in S : ~(y < x)
  BY <1>2, <1>3
<1>. QED BY <1>4

(* Requests, without their regions.                                        *)
LEMMA RequestFacts ==
    /\ \A r \in Requests : /\ r.blk \in Blocks /\ r.reg \subseteq Offsets /\ r.reg # {}
                           /\ r.mode \in {"read", "write", "read_write"}
    /\ NoReq \notin Requests
    /\ \A blk \in Blocks : /\ [blk |-> blk, reg |-> Offsets, mode |-> "write"] \in Requests
                           /\ [blk |-> blk, reg |-> Offsets, mode |-> "read"] \in Requests
<1>1. Offsets \in Regions
  BY CacheAssumption DEF Regions, Offsets
<1>2. \A g \in Regions : g \subseteq Offsets /\ g # {}
  <2> SUFFICES ASSUME NEW g \in Regions PROVE g \subseteq Offsets
    BY DEF Regions
  <2>1. PICK a \in Offsets, b \in Offsets : g = a..b
    BY DEF Regions
  <2>. QED BY <2>1, CacheAssumption DEF Offsets
<1>. QED BY <1>1, <1>2, CacheAssumption DEF Requests, NoReq

(* The bytes of a request.                                                 *)
LEMMA PartFacts ==
    /\ \A r, k, o : <<k, o>> \in Part(r) <=> k = r.blk /\ o \in r.reg
    /\ \A r : \A b \in Part(r) : b = <<b[1], b[2]>> /\ b[1] = r.blk /\ b[2] \in r.reg
BY DEF Part

(* The records of checkouts.                                               *)
LEMMA HeldFacts ==
    ASSUME TypeOK, NEW h \in held
    PROVE  /\ h.request \in Requests /\ h.written \in BOOLEAN
           /\ h = [request |-> h.request, written |-> h.written]
BY DEF TypeOK

(* The addresses of some bytes of slots.                                   *)
LEMMA AddrFacts ==
    ASSUME NEW S \in SUBSET (Slots \X Offsets)
    PROVE  /\ \A s \in Slots, o \in Offsets : <<s, o>> \in S => <<cached[s], o>> \in Addr(S)
           /\ \A b \in Addr(S) : /\ b = <<b[1], b[2]>> /\ b[2] \in Offsets
                                 /\ \E s \in Slots : cached[s] = b[1] /\ <<s, b[2]>> \in S
<1>1. ASSUME NEW s \in Slots, NEW o \in Offsets, <<s, o>> \in S
      PROVE  <<cached[s], o>> \in Addr(S)
  BY <1>1 DEF Addr
<1>2. ASSUME NEW b \in Addr(S)
      PROVE  /\ b = <<b[1], b[2]>> /\ b[2] \in Offsets
             /\ \E s \in Slots : cached[s] = b[1] /\ <<s, b[2]>> \in S
  <2>1. PICK p \in S : b = <<cached[p[1]], p[2]>>
    BY DEF Addr
  <2>2. p = <<p[1], p[2]>> /\ p[1] \in Slots /\ p[2] \in Offsets
    OBVIOUS
  <2>. QED BY <2>1, <2>2
<1>. QED BY <1>1, <1>2

(* The dirty bytes d and the list of their slots, as writeback_begin()     *)
(* gets them.                                                              *)
Listed(d, list) ==
    /\ d \in [Slots -> SUBSET Offsets] /\ list \in Seq(Slots)
    /\ \A s \in Slots : d[s] # {} =>
          cached[s] # NoBlock /\ \E i \in DOMAIN list : list[i] = s

DistinctKeys == \A s, t \in Slots : cached[s] = cached[t] /\ cached[s] # NoBlock => s = t
FlightsKnown == \A s \in Slots, o \in Offsets : InFlight(s, o) => s \in writing

(***************************************************************************)
(* What writeback_begin() does, whichever of its branches is taken: a      *)
(* dirty byte is being put, or it is at home.                              *)
(***************************************************************************)
LEMMA WritebackBegins ==
    ASSUME TypeOK, DistinctKeys, FlightsKnown, NEW d, NEW list, Listed(d, list),
           writeback_begin(d, list), UNCHANGED <<cached, wire, fresh>>
    PROVE  /\ dirty' = [s \in Slots |-> {}] /\ dirty_cache_blocks' = <<>>
           /\ writing' \subseteq Slots /\ puts' \subseteq Slots \X Offsets /\ home' \subseteq Bytes
           /\ \A s \in Slots : s \in writing' => s \in writing \/ d[s] # {}
           /\ (\A s \in Slots : d[s] = {}) => writing' = writing
           /\ \A s \in Slots, o \in Offsets :
                 /\ <<s, o>> \in puts' => /\ s \in writing'
                                          /\ <<s, o>> \in puts \/ (o \in d[s] /\ ~OnWire(s, o))
                 /\ OnWire(s, o) => s \in writing' /\ d[s] = {}
                 /\ <<s, o>> \in puts => <<s, o>> \in puts'
                 /\ o \in d[s] => \/ <<s, o>> \in puts'
                                  \/ <<cached[s], o>> \in home' <=> <<s, o>> \in fresh
           /\ \A b : ~(b \in home' <=> b \in home) =>
                 \E s \in Slots : /\ b[2] \in d[s] /\ b = <<cached[s], b[2]>>
                                  /\ b \in home' <=> <<s, b[2]>> \in fresh
<1> DEFINE todo == {s \in Slots : d[s] # {} /\ \E i \in DOMAIN list : list[i] = s}
           again == {i \in DOMAIN list : list[i] \in todo \cap writing}
           early == {s \in todo : \E i \in DOMAIN list :
                                      list[i] = s /\ \A j \in again : i < j}
           late == todo \ early
           region(S) == {p \in S \X Offsets : p[2] \in d[p[1]]}
<1>0. d \in [Slots -> SUBSET Offsets]
  BY DEF Listed
<1>1. todo = {s \in Slots : d[s] # {}}
  BY DEF Listed
<1>2. /\ IF again = {}
         THEN /\ puts' = puts \cup region(todo)
              /\ writing' = writing \cup todo
              /\ UNCHANGED home
         ELSE /\ Flushed
              /\ home' = (home \ Addr(region(early))) \cup Addr(region(early) \cap fresh)
              /\ puts' = region(late)
              /\ writing' = late
      /\ dirty' = [s \in Slots |-> IF s \in todo THEN {} ELSE d[s]]
      /\ dirty_cache_blocks' = <<>>
  BY DEF writeback_begin
<1>3. dirty' = [s \in Slots |-> {}]
  BY <1>1, <1>2
<1>4. again = {} => todo \cap writing = {}
  BY <1>1
<1>5. /\ \A s \in Slots, o \in Offsets : <<s, o>> \in region(todo) <=> s \in todo /\ o \in d[s]
      /\ \A s \in Slots, o \in Offsets : <<s, o>> \in region(early) <=> s \in early /\ o \in d[s]
      /\ \A s \in Slots, o \in Offsets : <<s, o>> \in region(late) <=> s \in late /\ o \in d[s]
  BY <1>0
<1>6. /\ region(todo) \subseteq Slots \X Offsets /\ region(early) \subseteq Slots \X Offsets
      /\ region(late) \subseteq Slots \X Offsets
  BY <1>0
<1>7. early \in SUBSET Slots /\ late \in SUBSET Slots /\ todo \in SUBSET Slots
  OBVIOUS
<1>a. PICK AE : AE = Addr(region(early))
  OBVIOUS
<1>b. PICK AF : AF = Addr(region(early) \cap fresh)
  OBVIOUS
<1>8. /\ \A s \in early : \A o \in d[s] :
            <<cached[s], o>> \in AE /\ (<<s, o>> \in fresh => <<cached[s], o>> \in AF)
      /\ \A b \in AE : b = <<b[1], b[2]>> /\ \E s \in early : cached[s] = b[1] /\ b[2] \in d[s]
      /\ \A b \in AF :
            /\ b = <<b[1], b[2]>>
            /\ \E s \in early : cached[s] = b[1] /\ b[2] \in d[s] /\ <<s, b[2]>> \in fresh
  <2>1. PICK E \in SUBSET (Slots \X Offsets) : E = region(early)
    BY <1>6
  <2>2. PICK F \in SUBSET (Slots \X Offsets) : F = region(early) \cap fresh
    BY <1>6
  <2>3. AE = Addr(E) /\ AF = Addr(F)
    BY <1>a, <1>b, <2>1, <2>2, Zenon
  <2>4. /\ \A s \in Slots, o \in Offsets : <<s, o>> \in E <=> s \in early /\ o \in d[s]
        /\ \A s \in Slots, o \in Offsets :
              <<s, o>> \in F <=> s \in early /\ o \in d[s] /\ <<s, o>> \in fresh
    BY <1>5, <2>1, <2>2
  <2> HIDE DEF early, region
  <2>5. /\ \A s \in Slots, o \in Offsets : <<s, o>> \in E => <<cached[s], o>> \in AE
        /\ \A b \in AE : /\ b = <<b[1], b[2]>> /\ b[2] \in Offsets
                         /\ \E s \in Slots : cached[s] = b[1] /\ <<s, b[2]>> \in E
    BY <2>3, AddrFacts
  <2>6. /\ \A s \in Slots, o \in Offsets : <<s, o>> \in F => <<cached[s], o>> \in AF
        /\ \A b \in AF : /\ b = <<b[1], b[2]>> /\ b[2] \in Offsets
                         /\ \E s \in Slots : cached[s] = b[1] /\ <<s, b[2]>> \in F
    BY <2>3, AddrFacts
  <2>7. \A s \in early : s \in Slots /\ \A o \in d[s] : o \in Offsets
    BY <1>0, <1>7
  <2>. QED BY <2>4, <2>5, <2>6, <2>7
<1>9. \A s \in todo : cached[s] \in Blocks
  BY <1>1 DEF TypeOK, Listed
<1>10. (\A s \in Slots : d[s] = {}) => todo = {} /\ again = {}
  BY <1>1
<1>11. early \cup late = todo /\ early \cap late = {}
  OBVIOUS
<1>12. \A s, o, v : <<s, o, v>> \in wire /\ s \in Slots /\ o \in Offsets /\ v \in BOOLEAN => OnWire(s, o)
  BY DEF OnWire
<1> HIDE DEF todo, again, early, late, region
<1>13. CASE again = {}
  <2>1. /\ puts' = puts \cup region(todo) /\ writing' = writing \cup todo /\ home' = home
    BY <1>2, <1>13
  <2>2. ASSUME NEW s \in Slots, NEW o \in Offsets, OnWire(s, o)
        PROVE  s \in writing /\ d[s] = {}
    BY <1>1, <1>4, <1>13, <2>2 DEF InFlight, FlightsKnown
  <2>3. ASSUME NEW s \in Slots, NEW o \in Offsets, <<s, o>> \in puts'
        PROVE  s \in writing' /\ (<<s, o>> \in puts \/ (o \in d[s] /\ ~OnWire(s, o)))
    BY <1>5, <1>7, <2>1, <2>2, <2>3 DEF InFlight, FlightsKnown
  <2>4. ASSUME NEW s \in Slots, NEW o \in Offsets, o \in d[s]
        PROVE  <<s, o>> \in puts'
    BY <1>1, <1>5, <1>7, <2>1, <2>4
  <2>5. puts' \subseteq Slots \X Offsets
    BY <1>6, <1>7, <2>1 DEF TypeOK
  <2>6. writing' \subseteq Slots /\ home' \subseteq Bytes
    BY <1>7, <2>1 DEF TypeOK
  <2>7. \A s \in Slots : s \in writing' => s \in writing \/ d[s] # {}
    BY <1>1, <2>1
  <2>8. (\A s \in Slots : d[s] = {}) => writing' = writing
    BY <1>10, <2>1
  <2>. QED BY <1>2, <1>3, <2>1, <2>2, <2>3, <2>4, <2>5, <2>6, <2>7, <2>8
<1>14. CASE again # {}
  <2>1. /\ puts = {} /\ wire = {}
        /\ home' = (home \ AE) \cup AF
        /\ puts' = region(late) /\ writing' = late
    BY <1>2, <1>14, <1>a, <1>b DEF Flushed
  <2>2. \A s, o : ~OnWire(s, o)
    BY <2>1 DEF OnWire
  <2>3. ASSUME NEW s \in Slots, NEW o \in Offsets, <<s, o>> \in puts'
        PROVE  s \in writing' /\ o \in d[s]
    BY <1>5, <1>7, <2>1, <2>3
  <2>6. ASSUME NEW s \in Slots, NEW o \in Offsets, s \in early, o \in d[s]
        PROVE  <<cached[s], o>> \in home' <=> <<s, o>> \in fresh
    <3>1. \A t \in Slots : cached[t] = cached[s] => t = s
      BY <1>1, <1>11, <2>6, <1>9, CacheAssumption DEF DistinctKeys
    <3>2. <<cached[s], o>> \in AE
      BY <1>8, <2>6
    <3>3. <<s, o>> \in fresh => <<cached[s], o>> \in AF
      BY <1>8, <2>6
    <3>4. <<cached[s], o>> \in AF => <<s, o>> \in fresh
      <4>1. ASSUME NEW b \in AF, b[1] = cached[s], b[2] = o PROVE <<s, o>> \in fresh
        <5>1. PICK t \in early : cached[t] = b[1] /\ <<t, b[2]>> \in fresh
          BY <1>8
        <5>. QED BY <1>7, <3>1, <4>1, <5>1
      <4>. QED BY <4>1
    <3>. QED BY <2>1, <3>2, <3>3, <3>4
  <2>7. ASSUME NEW s \in Slots, NEW o \in Offsets, o \in d[s]
        PROVE  \/ <<s, o>> \in puts'
               \/ <<cached[s], o>> \in home' <=> <<s, o>> \in fresh
    <3>1. CASE s \in early
      BY <2>6, <2>7, <3>1
    <3>2. CASE s \notin early
      <4>1. s \in late
        BY <1>1, <1>11, <2>7, <3>2
      <4>. QED BY <1>5, <1>7, <2>1, <2>7, <4>1
    <3>. QED BY <3>1, <3>2
  <2>8. ASSUME NEW b, ~(b \in home' <=> b \in home)
        PROVE  \E s \in Slots : /\ b[2] \in d[s] /\ b = <<cached[s], b[2]>>
                                /\ b \in home' <=> <<s, b[2]>> \in fresh
    <3>1. b \in AE \/ b \in AF
      BY <2>1, <2>8
    <3>2. PICK s \in early : b = <<b[1], b[2]>> /\ cached[s] = b[1] /\ b[2] \in d[s]
      BY <1>8, <3>1
    <3>3. s \in Slots /\ b[2] \in Offsets
      BY <1>0, <1>7, <3>2
    <3>4. <<cached[s], b[2]>> \in home' <=> <<s, b[2]>> \in fresh
      BY <2>6, <3>2, <3>3
    <3>. QED BY <3>2, <3>3, <3>4
  <2>9. home' \subseteq Bytes
    <3>1. ASSUME NEW b \in AF PROVE b \in Bytes
      <4>1. PICK s \in early : b = <<b[1], b[2]>> /\ cached[s] = b[1] /\ b[2] \in d[s]
        BY <1>8, <3>1
      <4>2. s \in Slots /\ cached[s] \in Blocks
        BY <1>7, <1>9, <1>11
      <4>. QED BY <1>0, <4>1, <4>2 DEF Bytes
    <3>. QED BY <2>1, <3>1 DEF TypeOK
  <2>10. puts' \subseteq Slots \X Offsets /\ writing' \subseteq Slots
    BY <1>6, <1>7, <2>1
  <2>11. \A s \in Slots : s \in writing' => s \in writing \/ d[s] # {}
    BY <1>1, <1>11, <2>1
  <2>. QED BY <1>2, <1>3, <1>10, <1>14, <2>1, <2>2, <2>3, <2>7, <2>8, <2>9, <2>10, <2>11
<1>. QED BY <1>13, <1>14

--------------------------------------------------------------------------------
(***************************************************************************)
(* What steps leave alone.                                                 *)
(***************************************************************************)

(* Slots keep their blocks when nothing of them changes, and puts end.     *)
LEMMA KeysFrame ==
    ASSUME Keys, UNCHANGED <<cached, lru, valid, dirty, tlb, dirty_cache_blocks>>,
           writing' \subseteq writing
    PROVE  Keys'
BY DEF Keys

(* Keys stay when fewer bytes are dirty and the order of slots changes.    *)
LEMMA KeysShrink ==
    ASSUME Keys, UNCHANGED <<cached, valid, tlb, dirty_cache_blocks>>, writing' \subseteq writing,
           \A s \in Slots : dirty'[s] \subseteq dirty[s],
           \A s \in Slots : \E i \in Slots : lru'[i] = s,
           \A i, j \in Slots : lru'[i] = lru'[j] => i = j
    PROVE  Keys'
<1>1. \A s \in Slots : cached[s] = NoBlock => valid[s] = {} /\ s \notin writing'
  BY DEF Keys
<1>2. \A s \in Slots : dirty'[s] \subseteq valid[s] /\ (dirty'[s] # {} => dirty[s] # {})
  BY DEF Keys
<1>3. \A s \in Slots : dirty'[s] # {} =>
         \E i \in DOMAIN dirty_cache_blocks : dirty_cache_blocks[i] = s
  BY <1>2 DEF Keys
<1>. QED BY <1>1, <1>2, <1>3, Zenon DEF Keys

(* Rights stay when checkouts and slots do, and the program keeps what it  *)
(* has.                                                                    *)
LEMMA RightsFrame ==
    ASSUME Rights, TypeOK, UNCHANGED <<held, cached, valid, ref_count>>,
           readonly' \subseteq readonly,
           \A b \in Bytes : owner[b] = "mine" => owner'[b] = "mine",
           pc' = "retry" \/ (pc' = "complete" /\ op' = "checkout") =>
              req' = req /\ (pc = "retry" \/ (pc = "complete" /\ op = "checkout"))
    PROVE  Rights'
<1>1. ASSUME NEW r \in Requests, Mine(r) PROVE Mine(r)'
  <2>1. r.blk \in Blocks /\ r.reg \subseteq Offsets
    BY RequestFacts
  <2>2. \A b \in Part(r) : b \in Bytes
    BY <2>1 DEF Part, Bytes
  <2>. QED BY <1>1, <2>2 DEF Mine
<1>2. \A s \in Slots : Users(s)' = Users(s)
  BY DEF Users
<1>3. \A h \in held : Mine(h.request)'
  BY <1>1, HeldFacts DEF Rights
<1>4. \A h \in held : \E s \in Slots : cached[s] = h.request.blk /\ h.request.reg \subseteq valid[s]
  BY DEF Rights
<1>5. \A s \in Slots : (ref_count[s] = Cardinality(Users(s)))'
  BY <1>2 DEF Rights
<1>6. pc' = "retry" \/ (pc' = "complete" /\ op' = "checkout") =>
         req' \in Requests /\ Mine(req)' /\ \A h \in held' : h.request # req'
  <2> SUFFICES ASSUME pc' = "retry" \/ (pc' = "complete" /\ op' = "checkout")
               PROVE  req' \in Requests /\ Mine(req)' /\ \A h \in held' : h.request # req'
    OBVIOUS
  <2>1. PICK r : r = req
    OBVIOUS
  <2>2. r \in Requests /\ Mine(r) /\ (\A h \in held : h.request # r) /\ req' = r
    BY <2>1 DEF Rights
  <2>3. Mine(r)'
    BY <1>1, <2>2
  <2>4. Mine(req)'
    BY <2>2, <2>3 DEF Mine
  <2>. QED BY <2>2, <2>4
<1>. QED BY <1>3, <1>4, <1>5, <1>6 DEF Rights

(* Mappings stay when slots and checkouts do.                              *)
LEMMA MapsFrame ==
    ASSUME Maps, UNCHANGED <<cached, mapped, vm, to_map, held>>, gets' \subseteq gets
    PROVE  Maps'
BY DEF Maps, ToMap, Users

(* Operations in flight stay.                                              *)
LEMMA FlightsFrame ==
    ASSUME Flights, UNCHANGED <<valid, dirty, puts, wire, gets, writing>>
    PROVE  Flights'
BY DEF Flights, Flight, InFlight, OnWire

(* The calls are where they were.                                          *)
LEMMA CallsFrame ==
    ASSUME Calls, UNCHANGED <<completed, fetching, to_map, gets, callVars, held, dirty, valid,
                              dirty_cache_blocks, writing, cached, readonly, has_dirty_cache,
                              ref_count>>
    PROVE  Calls'
BY DEF Calls, Alone, Clean, callVars

--------------------------------------------------------------------------------
(* A put reads its byte.                                                   *)
LEMMA PutReadsSInv == ASSUME SInv, PutReads PROVE SInv'
<1> USE DEF SInv, slotVars, mapVars, writeVars, fetchVars
<1>1. PICK p \in puts : /\ puts' = puts \ {p} /\ wire' = wire \cup {<<p[1], p[2], p \in fresh>>}
                        /\ UNCHANGED <<slotVars, mapVars, writeVars, fetchVars, fresh, home,
                                       callVars, readonly, tlb, owner, held>>
  BY DEF PutReads
<1>2. PICK a \in Slots, x \in Offsets, v \in BOOLEAN :
         /\ <<a, x>> \in puts /\ puts' = puts \ {<<a, x>>}
         /\ wire' = wire \cup {<<a, x, v>>}
  <2>1. p = <<p[1], p[2]>> /\ p[1] \in Slots /\ p[2] \in Offsets
    BY DEF TypeOK
  <2>2. PICK v \in BOOLEAN : v = (p \in fresh)
    <3>1. (p \in fresh) \in BOOLEAN
      OBVIOUS
    <3>2. WITNESS (p \in fresh) \in BOOLEAN
    <3>. QED OBVIOUS
  <2>3. wire' = wire \cup {<<p[1], p[2], v>>}
    BY <1>1, <2>2, Zenon
  <2>. QED BY <1>1, <2>1, <2>3
<1>3. TypeOK'
  BY <1>1, <1>2 DEF TypeOK, callVars
<1>4. Keys'
  BY <1>1, KeysFrame
<1>5. Rights'
  BY <1>1, RightsFrame DEF callVars
<1>6. Calls'
  BY <1>1, CallsFrame
<1>7. Maps'
  BY <1>1, MapsFrame
<1>8. \A s \in Slots, o \in Offsets :
         /\ <<s, o>> \in puts' <=> <<s, o>> \in puts /\ ~(s = a /\ o = x)
         /\ OnWire(s, o)' <=> OnWire(s, o) \/ (s = a /\ o = x)
  BY <1>2 DEF OnWire
<1>9. ~OnWire(a, x)
  BY <1>2 DEF Flights, Flight
<1>10. \A s \in Slots, o \in Offsets :
          ~(s = a /\ o = x) => \A w \in BOOLEAN : <<s, o, w>> \in wire' => <<s, o, w>> \in wire
  BY <1>2
<1>11. ~(<<a, x, TRUE>> \in wire' /\ <<a, x, FALSE>> \in wire')
  BY <1>2, <1>9 DEF OnWire
<1>12. ASSUME NEW s \in Slots, NEW o \in Offsets
       PROVE  /\ InFlight(s, o)' <=> InFlight(s, o)
              /\ ~(<<s, o>> \in puts' /\ OnWire(s, o)')
              /\ ~(<<s, o, TRUE>> \in wire' /\ <<s, o, FALSE>> \in wire')
  <2>1. CASE s = a /\ o = x
    BY <1>2, <1>8, <1>11, <2>1 DEF InFlight
  <2>2. CASE ~(s = a /\ o = x)
    BY <1>8, <1>10, <2>2 DEF Flights, Flight, InFlight
  <2>. QED BY <2>1, <2>2
<1>13. /\ valid' = valid /\ dirty' = dirty /\ gets' = gets /\ writing' = writing
  BY <1>1
<1>14. ASSUME NEW s \in Slots, NEW o \in Offsets PROVE Flight(s, o)'
  <2>1. Flight(s, o)
    BY DEF Flights
  <2>. QED BY <1>12, <1>13, <2>1 DEF Flight
<1>15. Flights'
  BY <1>14 DEF Flights
<1>. QED BY <1>3, <1>4, <1>5, <1>6, <1>7, <1>15

(* A put lands.                                                            *)
LEMMA PutLandsSInv == ASSUME SInv, PutLands PROVE SInv'
<1> USE DEF SInv, slotVars, mapVars, writeVars, fetchVars
<1>1. PICK w \in wire :
         /\ wire' = wire \ {w}
         /\ home' = IF w[3] THEN home \cup {<<cached[w[1]], w[2]>>}
                            ELSE home \ {<<cached[w[1]], w[2]>>}
         /\ UNCHANGED <<slotVars, mapVars, writeVars, fetchVars, puts, fresh, callVars,
                        readonly, tlb, owner, held>>
  BY DEF PutLands
<1>2. PICK a \in Slots, x \in Offsets, v \in BOOLEAN : w = <<a, x, v>>
  BY DEF TypeOK
<1>3. cached[a] \in Blocks
  <2>1. OnWire(a, x)
    BY <1>2 DEF OnWire
  <2>2. a \in writing
    BY <2>1 DEF Flights, Flight, InFlight
  <2>. QED BY <2>2 DEF Keys, TypeOK
<1>4. TypeOK'
  <2>1. home' \subseteq Bytes
    BY <1>1, <1>2, <1>3 DEF TypeOK, Bytes
  <2>2. wire' \subseteq Slots \X Offsets \X BOOLEAN
    BY <1>1 DEF TypeOK
  <2>. QED BY <1>1, <2>1, <2>2 DEF TypeOK, callVars
<1>5. Keys' /\ Rights' /\ Calls' /\ Maps'
  BY <1>1, KeysFrame, RightsFrame, CallsFrame, MapsFrame DEF callVars
<1>6. \A s \in Slots, o \in Offsets, u \in BOOLEAN : <<s, o, u>> \in wire' => <<s, o, u>> \in wire
  BY <1>1
<1>7. \A s \in Slots, o \in Offsets : OnWire(s, o)' => OnWire(s, o)
  BY <1>6 DEF OnWire
<1>8. Flights'
  BY <1>1, <1>6, <1>7 DEF Flights, Flight, InFlight
<1>. QED BY <1>4, <1>5, <1>8

(* A fetched byte arrives.                                                 *)
LEMMA GetLandsSInv == ASSUME SInv, GetLands PROVE SInv'
<1> USE DEF SInv, slotVars, mapVars, writeVars, fetchVars
<1>1. PICK p \in gets :
         /\ gets' = gets \ {p}
         /\ fresh' = IF <<cached[p[1]], p[2]>> \in home THEN fresh \cup {p} ELSE fresh \ {p}
         /\ UNCHANGED <<slotVars, mapVars, writeVars, fetching, completed, puts, wire, home,
                        callVars, readonly, tlb, owner, held>>
  BY DEF GetLands
<1>2. TypeOK'
  BY <1>1 DEF TypeOK, callVars
<1>3. Keys' /\ Rights' /\ Maps'
  BY <1>1, KeysFrame, RightsFrame, MapsFrame DEF callVars
<1>4. Calls'
  BY <1>1 DEF Calls, Alone, Clean, callVars
<1>5. Flights'
  BY <1>1 DEF Flights, Flight, InFlight, OnWire
<1>. QED BY <1>2, <1>3, <1>4, <1>5

(* What is on the wire is still there when it ceases to be fresh.          *)
LEMMA OutdatedFacts ==
    ASSUME TypeOK, NEW bs
    PROVE  /\ Outdated(bs) \subseteq Slots \X Offsets \X BOOLEAN
           /\ \A s \in Slots, o \in Offsets :
                 /\ <<s, o, TRUE>> \in Outdated(bs) <=>
                       <<s, o, TRUE>> \in wire /\ <<cached[s], o>> \notin bs
                 /\ <<s, o, FALSE>> \in Outdated(bs) <=>
                       \/ <<s, o, FALSE>> \in wire
                       \/ <<s, o, TRUE>> \in wire /\ <<cached[s], o>> \in bs
<1> DEFINE old(w) == IF <<cached[w[1]], w[2]>> \in bs THEN <<w[1], w[2], FALSE>> ELSE w
<1>1. Outdated(bs) = {old(w) : w \in wire}
  BY DEF Outdated
<1>2. ASSUME NEW w \in wire
      PROVE  /\ w = <<w[1], w[2], w[3]>> /\ w[1] \in Slots /\ w[2] \in Offsets /\ w[3] \in BOOLEAN
             /\ old(w) \in Slots \X Offsets \X BOOLEAN
  <2>1. w \in Slots \X Offsets \X BOOLEAN
    BY DEF TypeOK
  <2>2. w = <<w[1], w[2], w[3]>> /\ w[1] \in Slots /\ w[2] \in Offsets /\ w[3] \in BOOLEAN
    BY <2>1
  <2>3. <<w[1], w[2], FALSE>> \in Slots \X Offsets \X BOOLEAN
    BY <2>2
  <2>. QED BY <2>1, <2>2, <2>3
<1>3. Outdated(bs) \subseteq Slots \X Offsets \X BOOLEAN
  BY <1>1, <1>2
<1>4. ASSUME NEW s \in Slots, NEW o \in Offsets, NEW v \in BOOLEAN, <<s, o, v>> \in wire
      PROVE  old(<<s, o, v>>) = IF <<cached[s], o>> \in bs THEN <<s, o, FALSE>> ELSE <<s, o, v>>
  OBVIOUS
<1>5. ASSUME NEW s \in Slots, NEW o \in Offsets, NEW v \in BOOLEAN, <<s, o, v>> \in Outdated(bs)
      PROVE  \E u \in BOOLEAN : /\ <<s, o, u>> \in wire
                                /\ v = IF <<cached[s], o>> \in bs THEN FALSE ELSE u
  <2>1. PICK w \in wire : <<s, o, v>> = old(w)
    BY <1>1, <1>5
  <2>2. w[1] = s /\ w[2] = o
    BY <1>2, <2>1
  <2>3. w = <<s, o, w[3]>> /\ w[3] \in BOOLEAN
    BY <1>2, <2>2
  <2>4. <<s, o, v>> = IF <<cached[s], o>> \in bs THEN <<s, o, FALSE>> ELSE <<s, o, w[3]>>
    <3>1. <<s, o, v>> = IF <<cached[s], o>> \in bs THEN <<s, o, FALSE>> ELSE w
      BY <2>1, <2>2
    <3>. QED BY <2>3, <3>1
  <2>5. <<s, o, w[3]>> \in wire
    BY <2>3
  <2>6. CASE <<cached[s], o>> \in bs
    BY <2>3, <2>4, <2>5, <2>6
  <2>7. CASE <<cached[s], o>> \notin bs
    BY <2>3, <2>4, <2>5, <2>7
  <2>. QED BY <2>6, <2>7
<1> HIDE DEF old
<1>6. ASSUME NEW s \in Slots, NEW o \in Offsets
      PROVE  /\ <<s, o, TRUE>> \in Outdated(bs) <=>
                   <<s, o, TRUE>> \in wire /\ <<cached[s], o>> \notin bs
             /\ <<s, o, FALSE>> \in Outdated(bs) <=>
                   \/ <<s, o, FALSE>> \in wire
                   \/ <<s, o, TRUE>> \in wire /\ <<cached[s], o>> \in bs
  <2>1. <<s, o, TRUE>> \in wire /\ <<cached[s], o>> \notin bs => <<s, o, TRUE>> \in Outdated(bs)
    BY <1>1, <1>4
  <2>2. <<s, o, TRUE>> \in wire /\ <<cached[s], o>> \in bs => <<s, o, FALSE>> \in Outdated(bs)
    BY <1>1, <1>4
  <2>3. <<s, o, FALSE>> \in wire => <<s, o, FALSE>> \in Outdated(bs)
    BY <1>1, <1>4
  <2>4. <<s, o, TRUE>> \in Outdated(bs) => <<s, o, TRUE>> \in wire /\ <<cached[s], o>> \notin bs
    BY <1>5
  <2>5. <<s, o, FALSE>> \in Outdated(bs) =>
           \/ <<s, o, FALSE>> \in wire
           \/ <<s, o, TRUE>> \in wire /\ <<cached[s], o>> \in bs
    BY <1>5
  <2>. QED BY <2>1, <2>2, <2>3, <2>4, <2>5
<1>. QED BY <1>3, <1>6

(* Nothing more is in flight then.                                         *)
LEMMA FlightsOutdated ==
    ASSUME TypeOK, Flights, NEW bs, wire' = Outdated(bs),
           UNCHANGED <<valid, dirty, puts, gets, writing>>
    PROVE  Flights' /\ wire' \subseteq Slots \X Offsets \X BOOLEAN
<1>1. ASSUME NEW s \in Slots, NEW o \in Offsets PROVE Flight(s, o)'
  <2>1. Flight(s, o)
    BY DEF Flights
  <2>2. /\ <<s, o, TRUE>> \in wire' <=> <<s, o, TRUE>> \in wire /\ <<cached[s], o>> \notin bs
        /\ <<s, o, FALSE>> \in wire' <=> \/ <<s, o, FALSE>> \in wire
                                         \/ <<s, o, TRUE>> \in wire /\ <<cached[s], o>> \in bs
    BY OutdatedFacts
  <2>3. OnWire(s, o)' <=> OnWire(s, o)
    BY <2>2 DEF OnWire
  <2>. QED BY <2>1, <2>2, <2>3 DEF Flight, InFlight
<1>. QED BY <1>1, OutdatedFacts DEF Flights

(* Another rank writes.                                                    *)
LEMMA OthersWriteSInv == ASSUME SInv, NEW b \in Bytes, OthersWrite(b) PROVE SInv'
<1> USE DEF SInv
<1>1. /\ home' = home \cup {b} /\ fresh' = Without({b}) /\ wire' = Outdated({b})
      /\ UNCHANGED <<slotVars, mapVars, writeVars, fetchVars, puts, callVars,
                     readonly, tlb, owner, held>>
  BY DEF OthersWrite
<1>2. Flights' /\ wire' \subseteq Slots \X Offsets \X BOOLEAN
  BY <1>1, FlightsOutdated DEF slotVars, writeVars, fetchVars
<1>3. fresh' \subseteq fresh
  BY <1>1 DEF Without
<1>4. TypeOK'
  BY <1>1, <1>2, <1>3, ZenonT(30) DEF TypeOK, callVars, slotVars, mapVars, writeVars, fetchVars
<1>5. Keys' /\ Rights' /\ Calls' /\ Maps'
  BY <1>1, KeysFrame, RightsFrame, CallsFrame, MapsFrame
     DEF callVars, slotVars, mapVars, writeVars, fetchVars
<1>. QED BY <1>2, <1>4, <1>5

(* No slot that is checked out, clean or written back is left when die()   *)
(* is called.                                                              *)
LEMMA NoEmptySlot ==
    ASSUME TypeOK, Keys, EmptySlots = {}
    PROVE  \A s \in Slots : ~Usable(s)
<1> SUFFICES ASSUME NEW s \in Slots, Usable(s) PROVE FALSE
  OBVIOUS
<1> DEFINE U == {i \in Slots : Usable(lru[i])}
<1>1. Slots \subseteq Nat
  BY DEF Slots
<1>2. U \in SUBSET Nat
  BY <1>1
<1>3. PICK k \in Slots : lru[k] = s
  BY DEF Keys
<1>4. U # {}
  BY <1>3
<1>5. PICK i \in U : \A y \in U : i <= y
  BY <1>2, <1>4, Smallest
<1>6. i \in Slots /\ Usable(lru[i]) /\ lru[i] \in Slots
  BY <1>5 DEF TypeOK
<1>7. \A m \in Slots : m < i => ~Usable(lru[m])
  BY <1>1, <1>5
<1>8. lru[i] \in EmptySlots
  BY <1>6, <1>7 DEF EmptySlots, Keys
<1>. QED BY <1>8

(* die() is called when all slots are checked out.                         *)
LEMMA DieSInv == ASSUME SInv, die PROVE SInv'
<1> USE DEF SInv
<1>1. /\ pc = "retry" /\ EmptySlots = {} /\ pc' = "die"
      /\ UNCHANGED <<slotVars, mapVars, writeVars, fetchVars, dataVars, op, req,
                     readonly, tlb, owner, held>>
  BY DEF die
<1>2. \A s \in Slots : ref_count[s] > 0
  <2> SUFFICES ASSUME NEW s \in Slots PROVE ref_count[s] > 0
    OBVIOUS
  <2>1. ~Usable(s)
    BY <1>1, NoEmptySlot
  <2>2. dirty[s] = {} /\ s \notin writing
    BY <1>1 DEF Calls, Clean
  <2>3. ref_count[s] # 0 /\ ref_count[s] \in Nat
    BY <2>1, <2>2 DEF Usable, is_evictable, TypeOK
  <2>. QED BY <2>3
<1>3. TypeOK'
  BY <1>1 DEF TypeOK, slotVars, mapVars, writeVars, fetchVars, dataVars
<1>4. Keys' /\ Rights' /\ Maps' /\ Flights'
  BY <1>1, KeysFrame, RightsFrame, MapsFrame, FlightsFrame
     DEF slotVars, mapVars, writeVars, fetchVars, dataVars
<1>5. Calls'
  BY <1>1, <1>2 DEF Calls, Alone, Clean, slotVars, mapVars, writeVars, fetchVars
<1>. QED BY <1>3, <1>4, <1>5

(* checkout() returns.                                                     *)
LEMMA CheckoutReturnSInv == ASSUME SInv, CheckoutReturn PROVE SInv'
<1> USE DEF SInv
<1>1. /\ pc = "batch" /\ pc' = IF completed THEN "run" ELSE "map"
      /\ UNCHANGED <<slotVars, mapVars, writeVars, fetchVars, dataVars, op, req,
                     readonly, tlb, owner, held>>
  BY DEF CheckoutReturn
<1>2. TypeOK'
  BY <1>1 DEF TypeOK, slotVars, mapVars, writeVars, fetchVars, dataVars
<1>3. Keys' /\ Rights' /\ Maps' /\ Flights'
  BY <1>1, KeysFrame, RightsFrame, MapsFrame, FlightsFrame
     DEF slotVars, mapVars, writeVars, fetchVars, dataVars
<1>4. Calls'
  BY <1>1 DEF Calls, Alone, Clean, slotVars, mapVars, writeVars, fetchVars
<1>. QED BY <1>2, <1>3, <1>4

(* checkout_complete() has waited for the fetches.                         *)
LEMMA FetchCompleteSInv == ASSUME SInv, fetch_complete PROVE SInv'
<1> USE DEF SInv
<1>1. /\ pc = "map" /\ to_map = <<>> /\ (fetching => gets = {})
      /\ fetching' = FALSE /\ completed' = TRUE /\ pc' = "run"
      /\ UNCHANGED <<slotVars, mapVars, writeVars, gets, dataVars, op, req,
                     readonly, tlb, owner, held>>
  BY DEF fetch_complete
<1>2. TypeOK'
  BY <1>1 DEF TypeOK, slotVars, mapVars, writeVars, dataVars
<1>3. Keys' /\ Rights' /\ Maps' /\ Flights'
  BY <1>1, KeysFrame, RightsFrame, MapsFrame, FlightsFrame
     DEF slotVars, mapVars, writeVars, dataVars
<1>4. gets = {}
  BY <1>1 DEF Calls, TypeOK
<1>5. Calls'
  BY <1>1, <1>4 DEF Calls, Alone, Clean, slotVars, mapVars, writeVars
<1>. QED BY <1>2, <1>3, <1>5

(* The first slot of the list is mapped; its block was mapped to no other  *)
(* slot any more.                                                          *)
LEMMA UpdateMappingSInv == ASSUME SInv, update_mapping PROVE SInv'
<1> USE DEF SInv
<1>1. PICK s : s = Head(to_map)
  OBVIOUS
<1>2. PICK unmapped : unmapped = [b \in Blocks |-> IF b = mapped[s] THEN NoSlot ELSE vm[b]]
  OBVIOUS
<1>3. /\ pc = "map" /\ to_map # <<>>
      /\ vm' = [unmapped EXCEPT ![cached[s]] = s]
      /\ mapped' = [mapped EXCEPT ![s] = cached[s]]
      /\ to_map' = Tail(to_map)
      /\ UNCHANGED <<slotVars, writeVars, fetchVars, dataVars, callVars,
                     readonly, tlb, owner, held>>
  BY <1>1, <1>2 DEF update_mapping
<1>4. /\ to_map \in Seq(Slots) /\ Len(to_map) \in Nat \ {0} /\ DOMAIN to_map = 1..Len(to_map)
      /\ s = to_map[1] /\ s \in Slots
      /\ to_map' \in Seq(Slots) /\ DOMAIN to_map' = 1..(Len(to_map) - 1)
      /\ \A i \in DOMAIN to_map' : to_map'[i] = to_map[i + 1] /\ i + 1 \in DOMAIN to_map
      /\ \A i \in DOMAIN to_map : to_map[i] \in Slots
      /\ \A i \in DOMAIN to_map : i # 1 => i - 1 \in DOMAIN to_map' /\ to_map'[i - 1] = to_map[i]
  BY <1>1, <1>3 DEF TypeOK
<1>5. ToMap(s)
  BY <1>4 DEF ToMap
<1>6. cached[s] \in Blocks
  BY <1>4, <1>5 DEF Maps, TypeOK
<1>7. \A t \in Slots : mapped[t] = cached[s] => t = s
  <2> SUFFICES ASSUME NEW t \in Slots, mapped[t] = cached[s], t # s PROVE FALSE
    OBVIOUS
  <2>1. 1 \in DOMAIN to_map
    BY <1>4
  <2>2. \E k \in 1..(1 - 1) : to_map[k] = t
    BY <1>4, <2>1 DEF Maps
  <2>. QED BY <2>2
<1>8. \A b \in Blocks : vm'[b] = IF b = cached[s] THEN s
                                 ELSE IF b = mapped[s] THEN NoSlot ELSE vm[b]
  BY <1>2, <1>3
<1>9. /\ mapped \in [Slots -> Blocks \cup {NoBlock}] /\ mapped'[s] = cached[s]
      /\ \A t \in Slots : t # s => mapped'[t] = mapped[t]
  BY <1>3, <1>4, <1>6 DEF TypeOK
<1>10. vm \in [Blocks -> Slots \cup {NoSlot}] /\ NoSlot \notin Slots
  BY CacheAssumption DEF TypeOK
<1>11. vm' \in [Blocks -> Slots \cup {NoSlot}]
  BY <1>2, <1>3, <1>4, <1>6, <1>10
<1>12. mapped' \in [Slots -> Blocks \cup {NoBlock}]
  BY <1>3, <1>4, <1>6, <1>9
<1>13. TypeOK'
  BY <1>3, <1>4, <1>11, <1>12
     DEF TypeOK, slotVars, writeVars, fetchVars, dataVars, callVars
<1>14. Keys' /\ Rights' /\ Flights'
  BY <1>3, KeysFrame, RightsFrame, FlightsFrame
     DEF slotVars, writeVars, fetchVars, dataVars, callVars
<1>15. Calls'
  BY <1>3 DEF Calls, Alone, Clean, slotVars, writeVars, fetchVars, callVars
<1>16. Maps'
  <2>1. cached' = cached /\ held' = held
    BY <1>3 DEF slotVars
  <2>2. ASSUME NEW t \in Slots, mapped'[t] # cached[t] PROVE ToMap(t)'
    <3>1. t # s /\ mapped[t] # cached[t]
      BY <1>9, <2>2
    <3>2. PICK i \in DOMAIN to_map : to_map[i] = t
      BY <3>1 DEF Maps, ToMap
    <3>3. i # 1
      BY <1>4, <3>1, <3>2
    <3>. QED BY <1>4, <3>2, <3>3 DEF ToMap
  <2>3. ASSUME NEW t \in Slots, ToMap(t)' PROVE cached[t] # NoBlock /\ Users(t) # {}
    BY <1>4, <2>3 DEF Maps, ToMap
  <2>4. \A t \in Slots : Users(t)' = Users(t)
    BY <2>1 DEF Users
  <2>5. ASSUME NEW b \in Blocks, NEW t \in Slots PROVE vm'[b] = t <=> mapped'[t] = b
    <3>1. vm[b] = t <=> mapped[t] = b
      BY DEF Maps
    <3>2. mapped[s] = b => vm[b] = s
      BY <1>4 DEF Maps
    <3>. QED BY <1>4, <1>7, <1>8, <1>9, <1>10, <3>1, <3>2
  <2>6. ASSUME NEW i \in DOMAIN to_map', NEW t \in Slots,
               mapped'[t] = cached[to_map'[i]], t # to_map'[i]
        PROVE  \E k \in 1..(i - 1) : to_map'[k] = t
    <3>1. t # s
      <4> SUFFICES ASSUME t = s PROVE FALSE
        OBVIOUS
      <4>1. cached[s] = cached[to_map[i + 1]] /\ to_map[i + 1] \in Slots
        BY <1>4, <1>9, <2>6
      <4>2. s = to_map[i + 1]
        BY <1>4, <1>6, <4>1, CacheAssumption DEF Keys
      <4>. QED BY <1>4, <2>6, <4>2
    <3>2. mapped[t] = cached[to_map[i + 1]] /\ t # to_map[i + 1] /\ i + 1 \in DOMAIN to_map
      BY <1>4, <1>9, <2>6, <3>1
    <3>3. PICK k \in 1..i : to_map[k] = t
      <4>1. PICK j \in DOMAIN to_map : j = i + 1
        BY <3>2
      <4>2. \E k \in 1..(j - 1) : to_map[k] = t
        BY <3>2, <4>1 DEF Maps
      <4>3. i \in Int /\ j - 1 = i
        BY <1>4, <4>1
      <4>. QED BY <4>2, <4>3
    <3>4. i \in Nat /\ i <= Len(to_map) - 1
      BY <1>4
    <3>5. k \in DOMAIN to_map /\ k # 1
      BY <1>4, <3>1, <3>3, <3>4
    <3>6. k - 1 \in 1..(i - 1)
      BY <3>3, <3>4, <3>5
    <3>7. to_map'[k - 1] = to_map[k]
      BY <1>4, <3>5
    <3>. QED BY <3>3, <3>6, <3>7
  <2>7. gets' = gets
    BY <1>3 DEF fetchVars
  <2>. QED BY <2>1, <2>2, <2>3, <2>4, <2>5, <2>6, <2>7 DEF Maps
<1>. QED BY <1>13, <1>14, <1>15, <1>16

(***************************************************************************)
(* The program writes.  Its checkout is the same one, with a mark.         *)
(***************************************************************************)
LEMMA WriteSInv == ASSUME SInv, NEW h \in held, Write(h) PROVE SInv'
<1> USE DEF SInv
<1>1. PICK s : s = vm[h.request.blk]
  OBVIOUS
<1>2. PICK g : g = [h EXCEPT !.written = TRUE]
  OBVIOUS
<1>3. /\ pc = "run" /\ h.request.mode # "read" /\ s # NoSlot
      /\ fresh' = Without(Part(h.request)) \cup ({s} \X h.request.reg)
      /\ wire' = Outdated(Part(h.request))
      /\ home' = home \ Part(h.request)
      /\ held' = (held \ {h}) \cup {g}
      /\ UNCHANGED <<slotVars, mapVars, writeVars, fetchVars, puts, callVars,
                     readonly, tlb, owner>>
  BY <1>1, <1>2 DEF Write
<1>4. /\ h.request \in Requests /\ g.request = h.request /\ g.written = TRUE
      /\ g \in [request : Requests, written : BOOLEAN]
  <2>1. h \in [request : Requests, written : BOOLEAN]
    BY DEF TypeOK
  <2>2. g = [request |-> h.request, written |-> TRUE]
    BY <1>2, <2>1
  <2>3. h.request \in Requests
    BY <2>1
  <2>. QED BY <2>2, <2>3
<1>5. s \in Slots
  BY <1>1, <1>3, <1>4, RequestFacts DEF TypeOK
<1>6. Flights' /\ wire' \subseteq Slots \X Offsets \X BOOLEAN
  BY <1>3, FlightsOutdated DEF slotVars, writeVars, fetchVars
<1>7. fresh' \subseteq Slots \X Offsets
  BY <1>3, <1>4, <1>5, RequestFacts DEF Without, TypeOK
<1>8. TypeOK'
  BY <1>3, <1>4, <1>6, <1>7 DEF TypeOK, callVars, slotVars, mapVars, writeVars, fetchVars
<1>9. Keys'
  BY <1>3, KeysFrame DEF slotVars, writeVars, fetchVars
<1>10. /\ cached' = cached /\ valid' = valid /\ ref_count' = ref_count /\ owner' = owner
       /\ readonly' = readonly /\ pc' = pc /\ op' = op /\ req' = req
  BY <1>3 DEF slotVars, callVars
<1>11. ASSUME NEW t \in Slots
       PROVE  /\ Cardinality(Users(t)') = Cardinality(Users(t))
              /\ Users(t) # {} => Users(t)' # {}
  <2>0. IsFiniteSet(Users(t))
    BY FS_Subset DEF Users, Rights
  <2>1. CASE h.request.blk # cached[t] \/ g = h
    <3>1. Users(t)' = Users(t)
      BY <1>3, <1>4, <1>10, <2>1 DEF Users
    <3>. QED BY <3>1
  <2>2. CASE h.request.blk = cached[t] /\ g # h
    <3>1. g \notin held
      BY <1>4, <2>2 DEF Rights
    <3>2. Users(t)' = (Users(t) \ {h}) \cup {g} /\ h \in Users(t) /\ g \notin Users(t) \ {h}
      BY <1>3, <1>4, <1>10, <2>2, <3>1 DEF Users
    <3>3. /\ IsFiniteSet(Users(t) \ {h})
          /\ Cardinality(Users(t) \ {h}) = Cardinality(Users(t)) - 1
      BY <2>0, <3>2, FS_RemoveElement
    <3>4. Cardinality((Users(t) \ {h}) \cup {g}) = Cardinality(Users(t) \ {h}) + 1
      BY <3>2, <3>3, FS_AddElement
    <3>5. Cardinality(Users(t)) \in Nat
      BY <2>0, FS_CardinalityType
    <3>. QED BY <3>2, <3>3, <3>4, <3>5
  <2>. QED BY <2>1, <2>2
<1>12. Rights'
  <2>1. IsFiniteSet(held')
    <3>1. IsFiniteSet(held \ {h})
      BY FS_Subset DEF Rights
    <3>. QED BY <1>3, <3>1, FS_AddElement
  <2>2. \A a, b \in held' : a.request = b.request => a = b
    BY <1>3, <1>4 DEF Rights
  <2>3. \A t \in Slots : (ref_count[t] = Cardinality(Users(t)))'
    BY <1>10, <1>11 DEF Rights
  <2>4. ASSUME NEW a \in held'
        PROVE  /\ Mine(a.request)'
               /\ a.written => a.request.mode # "read"
               /\ \E t \in Slots : cached[t] = a.request.blk /\ a.request.reg \subseteq valid[t]
    <3>1. \E b \in held : a.request = b.request /\ (a.written => b.written \/ a = g)
      BY <1>3, <1>4
    <3>2. PICK b \in held : a.request = b.request /\ (a.written => b.written \/ a = g)
      BY <3>1
    <3>3. /\ Mine(b.request) /\ (b.written => b.request.mode # "read")
          /\ \E t \in Slots : cached[t] = b.request.blk /\ b.request.reg \subseteq valid[t]
      BY DEF Rights
    <3>4. Mine(a.request)'
      BY <1>10, <3>2, <3>3 DEF Mine
    <3>. QED BY <1>3, <1>4, <3>2, <3>3, <3>4
  <2>5. pc' # "retry" /\ pc' # "complete"
    BY <1>3, <1>10
  <2>. QED BY <1>10, <2>1, <2>2, <2>3, <2>4, <2>5 DEF Rights
<1>13. Calls'
  BY <1>3 DEF Calls, Alone, Clean, slotVars, mapVars, writeVars, fetchVars, callVars
<1>14. Maps'
  <2>1. mapped' = mapped /\ vm' = vm /\ to_map' = to_map /\ gets' = gets
    BY <1>3 DEF mapVars, fetchVars
  <2>. QED BY <1>10, <1>11, <2>1 DEF Maps, ToMap
<1>. QED BY <1>6, <1>8, <1>9, <1>12, <1>13, <1>14

--------------------------------------------------------------------------------
(* move_to_back_lru() keeps the list a permutation of the slots.           *)
LEMMA MovedToBackFacts ==
    ASSUME TypeOK, Keys, NEW s \in Slots
    PROVE  /\ MovedToBack(s) \in [Slots -> Slots]
           /\ \A t \in Slots : \E i \in Slots : MovedToBack(s)[i] = t
           /\ \A i, j \in Slots : MovedToBack(s)[i] = MovedToBack(s)[j] => i = j
<1>1. PICK k \in Slots : k = CHOOSE i \in Slots : lru[i] = s
  BY DEF Keys
<1>2. lru[k] = s
  BY <1>1 DEF Keys
<1> DEFINE f == [i \in Slots |-> IF i < k THEN i ELSE IF i < NSlots THEN i + 1 ELSE k]
<1>3. NSlots \in Nat /\ Slots = 1..NSlots /\ k \in 1..NSlots
  BY CacheAssumption DEF Slots
<1>4. f \in [Slots -> Slots]
  BY <1>3
<1>5. MovedToBack(s) = [i \in Slots |-> lru[f[i]]]
  <2>1. MovedToBack(s) = [i \in Slots |-> CASE i < k -> lru[i]
                                            [] i >= k /\ i < NSlots -> lru[i + 1]
                                            [] OTHER -> s]
    BY <1>1 DEF MovedToBack
  <2>2. ASSUME NEW i \in Slots
        PROVE  (CASE i < k -> lru[i] [] i >= k /\ i < NSlots -> lru[i + 1] [] OTHER -> s) = lru[f[i]]
    BY <1>2, <1>3
  <2>. QED BY <2>1, <2>2
<1>6. \A i, j \in Slots : f[i] = f[j] => i = j
  BY <1>3
<1>7. \A t \in Slots : \E i \in Slots : f[i] = t
  <2> SUFFICES ASSUME NEW t \in Slots PROVE \E i \in Slots : f[i] = t
    OBVIOUS
  <2>1. CASE t < k
    BY <1>3, <2>1
  <2>2. CASE t = k
    <3>1. NSlots \in Slots /\ f[NSlots] = k
      BY <1>3
    <3>. QED BY <2>2, <3>1
  <2>3. CASE t > k
    <3>1. t - 1 \in Slots /\ f[t - 1] = t
      BY <1>3, <2>3
    <3>. QED BY <3>1
  <2>. QED BY <1>3, <2>1, <2>2, <2>3
<1> HIDE DEF f
<1>8. lru \in [Slots -> Slots]
  BY DEF TypeOK
<1>9. MovedToBack(s) \in [Slots -> Slots]
  BY <1>4, <1>5, <1>8
<1>10. \A i \in Slots : MovedToBack(s)[i] = lru[f[i]] /\ f[i] \in Slots
  BY <1>4, <1>5
<1>11. \A t \in Slots : \E i \in Slots : MovedToBack(s)[i] = t
  <2> SUFFICES ASSUME NEW t \in Slots PROVE \E i \in Slots : MovedToBack(s)[i] = t
    OBVIOUS
  <2>1. PICK j \in Slots : lru[j] = t
    BY DEF Keys
  <2>2. PICK i \in Slots : f[i] = j
    BY <1>7
  <2>. QED BY <1>10, <2>1, <2>2
<1>12. \A i, j \in Slots : MovedToBack(s)[i] = MovedToBack(s)[j] => i = j
  BY <1>6, <1>10 DEF Keys
<1>. QED BY <1>9, <1>11, <1>12

(* The bytes that are fetched along.                                       *)
LEMMA PadFacts == ASSUME NEW r \in Requests PROVE r.reg \subseteq Pad(r.reg) /\ Pad(r.reg) \subseteq Offsets
<1>1. r.reg \subseteq Offsets
  BY RequestFacts
<1>. QED BY <1>1 DEF Pad

(***************************************************************************)
(* A checkout r takes slot s, which has its block or gets it.              *)
(***************************************************************************)
Vacant(s) == Users(s) = {} /\ dirty[s] = {} /\ s \notin writing

Placed(s, r, v) ==
    /\ TakeOut(s, r, v)
    /\ cached' = [cached EXCEPT ![s] = r.blk]
    /\ \A t \in Slots : t # s => cached[t] # r.blk
    /\ Mine(r) /\ \A h \in held : h.request # r
    /\ \/ cached[s] = r.blk /\ v = valid[s]
       \/ cached[s] # r.blk /\ v = {} /\ Vacant(s)
    /\ lru' = lru \/ lru' = MovedToBack(s)
    /\ fresh' \subseteq Slots \X Offsets
    /\ tlb' \subseteq Blocks \X Slots /\ \A e \in tlb' : cached'[e[2]] = e[1]
    /\ \/ to_map' = to_map /\ (mapped[s] = r.blk \/ ToMap(s))
       \/ to_map' = Append(to_map, s)
    /\ completed' \in BOOLEAN
    /\ completed' => completed /\ ~Begins(r, v) /\ to_map' = to_map

(* What it makes of the slot.                                              *)
LEMMA PlacedFacts ==
    ASSUME SInv, NEW s \in Slots, NEW r \in Requests, NEW v, Placed(s, r, v)
    PROVE  /\ v \subseteq Offsets /\ v \subseteq valid[s]
           /\ \A t \in Slots : /\ t # s => cached'[t] = cached[t] /\ valid'[t] = valid[t]
                               /\ t # s => cached[t] # r.blk
                               /\ t # s => ref_count'[t] = ref_count[t]
           /\ cached'[s] = r.blk /\ r.blk \in Blocks
           /\ r.reg \subseteq valid'[s] /\ v \subseteq valid'[s] /\ valid'[s] \subseteq Offsets
           /\ cached' \in [Slots -> Blocks \cup {NoBlock}]
           /\ valid' \in [Slots -> SUBSET Offsets]
           /\ cached[s] # r.blk => Vacant(s)
           /\ cached[s] = r.blk => valid[s] = v
           /\ \A t \in Slots, o \in Offsets : <<t, o>> \in gets' <=>
                 <<t, o>> \in gets \/ (t = s /\ Begins(r, v) /\ o \in Pad(r.reg) /\ o \notin v)
           /\ gets' \subseteq Slots \X Offsets
           /\ Begins(r, v) => Pad(r.reg) \subseteq valid'[s]
           /\ ref_count'[s] = ref_count[s] + 1
           /\ held' = held \cup {[request |-> r, written |-> FALSE]}
           /\ fetching' = (fetching \/ Begins(r, v))
           /\ pc' = "batch" /\ req' = NoReq
           /\ UNCHANGED <<dirty, mapped, vm, writeVars, puts, wire, home, op, readonly, owner>>
<1> USE DEF SInv
<1>1. /\ r.blk \in Blocks /\ r.reg \subseteq Offsets
  BY RequestFacts
<1>2. v \subseteq valid[s] /\ v \subseteq Offsets
  BY DEF Placed, TypeOK
<1>3. PICK new : new = v \cup (IF Begins(r, v) THEN Pad(r.reg) ELSE r.reg)
  OBVIOUS
<1>4. /\ valid' = [valid EXCEPT ![s] = new]
      /\ gets' = gets \cup (IF Begins(r, v) THEN {s} \X (Pad(r.reg) \ v) ELSE {})
      /\ fetching' = (fetching \/ Begins(r, v))
      /\ ref_count' = [ref_count EXCEPT ![s] = @ + 1]
      /\ held' = held \cup {[request |-> r, written |-> FALSE]}
      /\ pc' = "batch" /\ req' = NoReq
      /\ UNCHANGED <<dirty, mapped, vm, writeVars, puts, wire, home, op, readonly, owner>>
  BY <1>3 DEF Placed, TakeOut
<1>5. new \subseteq Offsets /\ r.reg \subseteq new /\ v \subseteq new
      /\ (Begins(r, v) => Pad(r.reg) \subseteq new)
  BY <1>1, <1>2, <1>3, PadFacts
<1>6. /\ valid' \in [Slots -> SUBSET Offsets] /\ valid'[s] = new
      /\ \A t \in Slots : t # s => valid'[t] = valid[t]
  BY <1>4, <1>5 DEF TypeOK
<1>7. /\ cached' \in [Slots -> Blocks \cup {NoBlock}] /\ cached'[s] = r.blk
      /\ \A t \in Slots : t # s => cached'[t] = cached[t] /\ cached[t] # r.blk
  BY <1>1 DEF Placed, TypeOK
<1>8. /\ ref_count'[s] = ref_count[s] + 1
      /\ \A t \in Slots : t # s => ref_count'[t] = ref_count[t]
  BY <1>4 DEF TypeOK
<1>9. /\ \A t \in Slots, o \in Offsets : <<t, o>> \in gets' <=>
                 <<t, o>> \in gets \/ (t = s /\ Begins(r, v) /\ o \in Pad(r.reg) /\ o \notin v)
      /\ gets' \subseteq Slots \X Offsets
  <2>1. CASE Begins(r, v)
    <3>1. gets' = gets \cup ({s} \X (Pad(r.reg) \ v)) /\ Pad(r.reg) \subseteq Offsets
      BY <1>4, <2>1, PadFacts
    <3>. QED BY <2>1, <3>1 DEF TypeOK
  <2>2. CASE ~Begins(r, v)
    BY <1>4, <2>2 DEF TypeOK
  <2>. QED BY <2>1, <2>2
<1>10. (cached[s] # r.blk => Vacant(s)) /\ (cached[s] = r.blk => valid[s] = v)
  BY DEF Placed
<1>. QED BY <1>1, <1>2, <1>4, <1>5, <1>6, <1>7, <1>8, <1>9, <1>10

(* It leaves the keys in order.                                            *)
LEMMA PlacedKeys ==
    ASSUME SInv, NEW s \in Slots, NEW r \in Requests, NEW v, Placed(s, r, v)
    PROVE  Keys' /\ lru' \in [Slots -> Slots]
<1> USE DEF SInv
<1>1. /\ \A t \in Slots : \E i \in Slots : lru'[i] = t
      /\ \A i, j \in Slots : lru'[i] = lru'[j] => i = j
      /\ lru' \in [Slots -> Slots]
  <2>1. CASE lru' = lru
    BY <2>1 DEF Keys, TypeOK
  <2>2. CASE lru' = MovedToBack(s)
    BY <2>2, MovedToBackFacts, ZenonT(30)
  <2>. QED BY <2>1, <2>2 DEF Placed
<1>2. \A t, u \in Slots : cached'[t] = cached'[u] /\ cached'[t] # NoBlock => t = u
  BY PlacedFacts DEF Keys
<1>3. \A e \in tlb' : cached'[e[2]] = e[1]
  BY DEF Placed
<1>4. writing' = writing /\ dirty' = dirty /\ dirty_cache_blocks' = dirty_cache_blocks
  BY PlacedFacts DEF writeVars
<1>5. ASSUME NEW t \in Slots, cached'[t] = NoBlock PROVE valid'[t] = {} /\ t \notin writing
  <2>1. t # s
    BY <1>5, PlacedFacts, CacheAssumption
  <2>. QED BY <1>5, <2>1, PlacedFacts DEF Keys
<1>6. ASSUME NEW t \in Slots PROVE dirty[t] \subseteq valid'[t]
  <2>1. CASE t # s
    BY <2>1, PlacedFacts DEF Keys
  <2>2. CASE t = s /\ cached[s] # r.blk
    BY <2>2, PlacedFacts DEF Vacant
  <2>3. CASE t = s /\ cached[s] = r.blk
    BY <2>3, PlacedFacts DEF Keys
  <2>. QED BY <2>1, <2>2, <2>3
<1>. QED BY <1>1, <1>2, <1>3, <1>4, <1>5, <1>6 DEF Keys

(* Checkouts keep their slots, and their number is counted.                *)
LEMMA PlacedRights ==
    ASSUME SInv, NEW s \in Slots, NEW r \in Requests, NEW v, Placed(s, r, v)
    PROVE  /\ Rights' /\ held' \subseteq [request : Requests, written : BOOLEAN]
           /\ \A t \in Slots : Users(t) \subseteq Users(t)'
           /\ Users(s)' # {}
<1> USE DEF SInv
<1>1. PICK new : new = [request |-> r, written |-> FALSE]
  OBVIOUS
<1>2. /\ new.request = r /\ new.written = FALSE /\ new \notin held /\ held' = held \cup {new}
      /\ \A h \in held : h.request # r
      /\ new \in [request : Requests, written : BOOLEAN]
  BY <1>1, PlacedFacts DEF Placed
<1>3. held' \subseteq [request : Requests, written : BOOLEAN]
  BY <1>2 DEF TypeOK
<1>4. IsFiniteSet(held')
  BY <1>2, FS_AddElement DEF Rights
<1>5. \A h, g \in held' : h.request = g.request => h = g
  BY <1>2 DEF Rights
<1>6. cached[s] # r.blk => \A h \in held : h.request.blk # cached[s] /\ h.request.blk # r.blk
  <2> SUFFICES ASSUME cached[s] # r.blk, NEW h \in held
               PROVE  h.request.blk # cached[s] /\ h.request.blk # r.blk
    OBVIOUS
  <2>1. h.request.blk # cached[s]
    BY PlacedFacts DEF Vacant, Users
  <2>2. PICK t \in Slots : cached[t] = h.request.blk
    BY DEF Rights
  <2>. QED BY <2>1, <2>2, PlacedFacts
<1>7. \A t \in Slots : t # s => Users(t)' = Users(t)
  BY <1>2, PlacedFacts DEF Users
<1>8. Users(s)' = Users(s) \cup {new}
  <2>1. Users(s)' = {h \in held' : h.request.blk = r.blk}
    BY PlacedFacts DEF Users
  <2>2. new.request.blk = r.blk
    BY <1>2
  <2>3. CASE cached[s] = r.blk
    BY <1>2, <2>1, <2>2, <2>3 DEF Users
  <2>4. CASE cached[s] # r.blk
    BY <1>2, <1>6, <2>1, <2>2, <2>4 DEF Users
  <2>. QED BY <2>3, <2>4
<1>9. ASSUME NEW t \in Slots PROVE (ref_count[t] = Cardinality(Users(t)))'
  <2>1. CASE t # s
    BY <1>7, <2>1, PlacedFacts DEF Rights
  <2>2. CASE t = s
    <3>1. IsFiniteSet(Users(s)) /\ new \notin Users(s)
      BY <1>2, FS_Subset DEF Users, Rights
    <3>2. Cardinality(Users(s) \cup {new}) = Cardinality(Users(s)) + 1
      BY <3>1, FS_AddElement
    <3>3. ref_count[s] = Cardinality(Users(s)) /\ ref_count'[s] = ref_count[s] + 1
      BY PlacedFacts DEF Rights
    <3>4. Cardinality(Users(s)') = Cardinality(Users(s)) + 1
      BY <1>8, <3>2
    <3>5. (ref_count[s] = Cardinality(Users(s)))'
      BY <3>3, <3>4
    <3>. QED BY <2>2, <3>5
  <2>. QED BY <2>1, <2>2
<1>10. owner' = owner /\ readonly' = readonly /\ pc' = "batch"
  BY PlacedFacts
<1>11. ASSUME NEW h \in held'
       PROVE  /\ Mine(h.request)'
              /\ h.written => h.request.mode # "read"
              /\ \E t \in Slots : cached'[t] = h.request.blk /\ h.request.reg \subseteq valid'[t]
  <2>1. CASE h \in held
    <3>1. Mine(h.request) /\ (h.written => h.request.mode # "read")
      BY <2>1 DEF Rights
    <3>2. Mine(h.request)'
      BY <1>10, <3>1 DEF Mine
    <3>3. PICK t \in Slots : cached[t] = h.request.blk /\ h.request.reg \subseteq valid[t]
      BY <2>1 DEF Rights
    <3>4. CASE t # s
      BY <3>1, <3>2, <3>3, <3>4, PlacedFacts
    <3>5. CASE t = s
      <4>1. cached[s] = r.blk
        BY <1>6, <2>1, <3>3, <3>5
      <4>. QED BY <3>1, <3>2, <3>3, <3>5, <4>1, PlacedFacts
    <3>. QED BY <3>4, <3>5
  <2>2. CASE h = new
    <3>1. Mine(r)'
      BY <1>10 DEF Placed, Mine
    <3>2. h.request = r /\ h.written = FALSE
      BY <1>2, <2>2
    <3>3. Mine(h.request)'
      BY <3>1, <3>2 DEF Mine
    <3>. QED BY <3>2, <3>3, PlacedFacts
  <2>. QED BY <1>2, <2>1, <2>2
<1>12. Rights'
  BY <1>4, <1>5, <1>9, <1>10, <1>11 DEF Rights
<1>. QED BY <1>3, <1>7, <1>8, <1>12

(* A slot that is not mapped yet is behind the one that has its place.     *)
LEMMA PlacedMaps ==
    ASSUME SInv, NEW s \in Slots, NEW r \in Requests, NEW v, Placed(s, r, v)
    PROVE  Maps' /\ to_map' \in Seq(Slots)
<1> USE DEF SInv
<1>1. mapped' = mapped /\ vm' = vm
  BY PlacedFacts
<1>2. PICK n \in Nat : n = Len(to_map) /\ to_map \in [1..n -> Slots] /\ DOMAIN to_map = 1..n
  BY DEF TypeOK
<1>3. /\ to_map' \in Seq(Slots)
      /\ \A i \in 1..n : i \in DOMAIN to_map' /\ to_map'[i] = to_map[i]
      /\ \A i \in DOMAIN to_map' : i \in 1..n \/ (i = n + 1 /\ to_map'[i] = s)
      /\ mapped[s] = r.blk \/ ToMap(s)'
  <2>1. CASE to_map' = to_map /\ (mapped[s] = r.blk \/ ToMap(s))
    BY <1>2, <2>1 DEF TypeOK, ToMap
  <2>2. CASE to_map' = Append(to_map, s)
    <3>1. /\ to_map' \in Seq(Slots) /\ DOMAIN to_map' = 1..(n + 1) /\ to_map'[n + 1] = s
          /\ \A i \in 1..n : to_map'[i] = to_map[i]
      BY <1>2, <2>2 DEF TypeOK
    <3>2. ToMap(s)'
      BY <3>1 DEF ToMap
    <3>. QED BY <3>1, <3>2
  <2>. QED BY <2>1, <2>2 DEF Placed
<1>4. \A t \in Slots : ToMap(t) => ToMap(t)'
  BY <1>2, <1>3 DEF ToMap
<1>5. \A t \in Slots : ToMap(t)' => ToMap(t) \/ t = s
  BY <1>2, <1>3 DEF ToMap
<1>6. ToMap(s) => cached[s] = r.blk
  BY PlacedFacts DEF Maps, Vacant
<1>7. ASSUME NEW t \in Slots, mapped[t] # cached'[t] PROVE ToMap(t)'
  <2>1. CASE t = s
    BY <1>3, <1>7, <2>1, PlacedFacts
  <2>2. CASE t # s
    BY <1>4, <1>7, <2>2, PlacedFacts DEF Maps
  <2>. QED BY <2>1, <2>2
<1>8. ASSUME NEW t \in Slots, ToMap(t)' PROVE cached'[t] # NoBlock /\ Users(t)' # {}
  <2>1. CASE t = s
    BY <2>1, PlacedFacts, PlacedRights, CacheAssumption
  <2>2. CASE t # s
    BY <1>5, <1>8, <2>2, PlacedFacts, PlacedRights DEF Maps
  <2>. QED BY <2>1, <2>2
<1>9. ASSUME NEW i \in DOMAIN to_map', NEW t \in Slots,
             mapped[t] = cached'[to_map'[i]], t # to_map'[i]
      PROVE  \E k \in 1..(i - 1) : to_map'[k] = t
  <2>1. CASE i \in 1..n
    <3>1. to_map'[i] = to_map[i] /\ to_map[i] \in Slots /\ ToMap(to_map[i])
      BY <1>2, <1>3, <2>1 DEF ToMap
    <3>2. cached'[to_map[i]] = cached[to_map[i]]
      BY <1>6, <3>1, PlacedFacts
    <3>3. PICK k \in 1..(i - 1) : to_map[k] = t
      BY <1>2, <1>9, <2>1, <3>1, <3>2 DEF Maps
    <3>4. k \in 1..n
      BY <2>1, <3>3
    <3>. QED BY <1>3, <3>3, <3>4
  <2>2. CASE i = n + 1 /\ to_map'[i] = s
    <3>1. mapped[t] = r.blk /\ t # s /\ cached[t] # r.blk
      BY <1>9, <2>2, PlacedFacts
    <3>2. PICK k \in 1..n : to_map[k] = t
      BY <1>2, <3>1 DEF Maps, ToMap
    <3>. QED BY <1>3, <2>2, <3>2
  <2>. QED BY <1>3, <2>1, <2>2
<1>10. ASSUME NEW t \in Slots, NEW o \in Offsets, <<t, o>> \in gets' PROVE Users(t)' # {}
  BY <1>10, PlacedFacts, PlacedRights DEF Maps
<1>. QED BY <1>1, <1>3, <1>7, <1>8, <1>9, <1>10 DEF Maps

(* Only bytes are fetched that are neither valid nor in flight.            *)
LEMMA PlacedFlights ==
    ASSUME SInv, NEW s \in Slots, NEW r \in Requests, NEW v, Placed(s, r, v)
    PROVE  Flights'
<1> USE DEF SInv
<1>1. puts' = puts /\ wire' = wire /\ writing' = writing /\ dirty' = dirty
  BY PlacedFacts DEF writeVars
<1>2. ASSUME NEW t \in Slots, NEW o \in Offsets PROVE Flight(t, o)'
  <2>1. Flight(t, o)
    BY DEF Flights
  <2>2. InFlight(t, o)' <=> InFlight(t, o)
    BY <1>1 DEF InFlight, OnWire
  <2>3. OnWire(t, o)' <=> OnWire(t, o)
    BY <1>1 DEF OnWire
  <2>4. CASE t # s
    <3>1. valid'[t] = valid[t] /\ (<<t, o>> \in gets' <=> <<t, o>> \in gets)
      BY <2>4, PlacedFacts
    <3>. QED BY <1>1, <2>1, <2>2, <2>3, <3>1 DEF Flight
  <2>5. CASE t = s /\ cached[s] # r.blk
    <3>1. t \notin writing /\ dirty[t] = {} /\ <<t, o>> \notin gets
      BY <2>5, PlacedFacts DEF Vacant, Maps
    <3>2. <<t, o>> \in gets' => o \in valid'[t]
      BY <2>5, <3>1, PlacedFacts
    <3>. QED BY <1>1, <2>1, <2>2, <2>3, <3>1, <3>2 DEF Flight
  <2>6. CASE t = s /\ cached[s] = r.blk
    <3>1. valid[t] = v /\ v \subseteq valid'[t]
      BY <2>6, PlacedFacts
    <3>2. <<t, o>> \in gets' => <<t, o>> \in gets \/ (o \in valid'[t] /\ o \notin v)
      BY <2>6, PlacedFacts
    <3>3. dirty[t] \subseteq v
      BY <3>1 DEF Keys
    <3>. QED BY <1>1, <2>1, <2>2, <2>3, <3>1, <3>2, <3>3 DEF Flight
  <2>. QED BY <2>4, <2>5, <2>6
<1>. QED BY <1>2 DEF Flights

(* So it keeps the invariant.                                              *)
LEMMA PlacedSInv ==
    ASSUME SInv, NEW s \in Slots, NEW r \in Requests, NEW v, Placed(s, r, v)
    PROVE  SInv'
<1> USE DEF SInv
<1>1. Keys' /\ lru' \in [Slots -> Slots]
  BY PlacedKeys
<1>2. Rights' /\ held' \subseteq [request : Requests, written : BOOLEAN]
  BY PlacedRights
<1>3. Maps' /\ to_map' \in Seq(Slots)
  BY PlacedMaps
<1>4. Flights'
  BY PlacedFlights
<1>5. PICK begins \in BOOLEAN : begins <=> Begins(r, v)
  <2>1. CASE Begins(r, v)
    BY <2>1
  <2>2. CASE ~Begins(r, v)
    BY <2>2
  <2>. QED BY <2>1, <2>2
<1>6. fetching' \in BOOLEAN /\ (fetching' <=> fetching \/ begins)
  BY <1>5, PlacedFacts DEF TypeOK
<1>7. completed' \in BOOLEAN /\ (completed' => completed /\ ~begins /\ to_map' = to_map)
  BY <1>5 DEF Placed
<1>8. ref_count' \in [Slots -> Nat]
  BY DEF Placed, TakeOut, TypeOK
<1>9. /\ dirty' = dirty /\ mapped' = mapped /\ vm' = vm /\ writing' = writing
      /\ dirty_cache_blocks' = dirty_cache_blocks /\ has_dirty_cache' = has_dirty_cache
      /\ puts' = puts /\ wire' = wire /\ home' = home /\ op' = op /\ readonly' = readonly
      /\ owner' = owner /\ pc' = "batch" /\ req' = NoReq
  BY PlacedFacts DEF writeVars
<1>10. /\ fresh' \subseteq Slots \X Offsets /\ tlb' \subseteq Blocks \X Slots
  BY DEF Placed
<1>11. /\ cached' \in [Slots -> Blocks \cup {NoBlock}] /\ valid' \in [Slots -> SUBSET Offsets]
       /\ gets' \subseteq Slots \X Offsets
  BY PlacedFacts
<1>12. TypeOK'
  BY <1>1, <1>2, <1>3, <1>6, <1>7, <1>8, <1>9, <1>10, <1>11 DEF TypeOK
<1>13. ~fetching' => gets' = {}
  <2> SUFFICES ASSUME ~fetching' PROVE gets' = {}
    OBVIOUS
  <2>1. gets = {} /\ ~Begins(r, v)
    BY <1>5, <1>6 DEF Calls
  <2>. QED BY <1>11, <2>1, PlacedFacts
<1>14. Calls'
  BY <1>6, <1>7, <1>9, <1>13 DEF Calls, Alone, Clean
<1>. QED BY <1>1, <1>2, <1>3, <1>4, <1>12, <1>14

(* What the program may check out.                                         *)
LEMMA RequestedFacts ==
    ASSUME SInv, NEW r \in Requests, Requested(r)
    PROVE  Mine(r) /\ \A h \in held : h.request # r
BY DEF SInv, Requested, Permitted, Mine, Rights

(* One slot has the block of a request.                                    *)
LEMMA OneSlot ==
    ASSUME SInv, NEW r \in Requests, NEW s \in Slots, cached[s] = r.blk
    PROVE  /\ \A t \in Slots : t # s => cached[t] # r.blk
           /\ cached = [cached EXCEPT ![s] = r.blk]
<1>1. r.blk # NoBlock
  BY RequestFacts, CacheAssumption
<1>2. \A t \in Slots : t # s => cached[t] # r.blk
  BY <1>1 DEF SInv, Keys
<1>3. cached = [cached EXCEPT ![s] = r.blk]
  BY DEF SInv, TypeOK
<1>. QED BY <1>2, <1>3

(* A slot that is given away has no users and nothing to write back.       *)
LEMMA VacantSlot ==
    ASSUME SInv, NEW s \in EmptySlots
    PROVE  s \in Slots /\ Vacant(s)
<1> USE DEF SInv
<1>1. s \in Slots /\ Usable(s)
  BY DEF EmptySlots
<1>2. CASE cached[s] = NoBlock
  <2>1. \A h \in held : h.request.blk # NoBlock
    BY HeldFacts, RequestFacts, CacheAssumption
  <2>. QED BY <1>1, <1>2, <2>1 DEF Vacant, Users, Keys
<1>3. CASE is_evictable(s)
  <2>1. Cardinality(Users(s)) = 0 /\ IsFiniteSet(Users(s))
    BY <1>1, <1>3, FS_Subset DEF Rights, is_evictable, Users
  <2>2. Users(s) = {}
    BY <2>1, FS_EmptySet
  <2>. QED BY <1>1, <1>3, <2>2 DEF Vacant, is_evictable
<1>. QED BY <1>1, <1>2, <1>3 DEF Usable

(* checkout_fast().                                                        *)
LEMMA CheckoutFastPlaced ==
    ASSUME SInv, NEW r \in Requests, checkout_fast(r)
    PROVE  \E s \in Slots : Placed(s, r, valid[s]) /\ cached' = cached /\ fresh' = fresh
                            /\ cached[s] = r.blk
<1> USE DEF SInv
<1>1. Mine(r) /\ \A h \in held : h.request # r
  BY RequestedFacts DEF checkout_fast, Requested
<1>2. PICK s \in Slots : /\ <<r.blk, s>> \in tlb /\ TakeOut(s, r, valid[s])
                         /\ completed' = (completed /\ ~Begins(r, valid[s]))
  BY DEF checkout_fast
<1>3. cached' = cached /\ lru' = lru /\ to_map' = to_map /\ fresh' = fresh /\ tlb' = tlb
  BY DEF checkout_fast
<1>4. cached[s] = r.blk
  <2>1. PICK e \in tlb : e = <<r.blk, s>>
    BY <1>2
  <2>. QED BY <2>1 DEF Keys
<1>5. mapped[s] = r.blk \/ ToMap(s)
  BY <1>4 DEF Maps
<1>6. /\ \A t \in Slots : t # s => cached[t] # r.blk
      /\ cached' = [cached EXCEPT ![s] = r.blk]
  BY <1>3, <1>4, OneSlot
<1>7. completed' \in BOOLEAN /\ (completed' => completed /\ ~Begins(r, valid[s]))
  BY <1>2 DEF TypeOK
<1>8. /\ fresh' \subseteq Slots \X Offsets /\ tlb' \subseteq Blocks \X Slots
      /\ \A e \in tlb' : cached'[e[2]] = e[1]
  BY <1>3 DEF TypeOK, Keys
<1>9. Placed(s, r, valid[s])
  BY <1>1, <1>2, <1>3, <1>4, <1>5, <1>6, <1>7, <1>8 DEF Placed
<1>. QED BY <1>3, <1>4, <1>9

(* What checkout_blk() does at the end.                                    *)
LEMMA CheckoutAtPlaced ==
    ASSUME SInv, NEW r \in Requests, NEW s \in Slots, NEW v, NEW old \in SUBSET tlb,
           CheckoutAt(s, r, v, old),
           cached' = [cached EXCEPT ![s] = r.blk],
           \A t \in Slots : t # s => cached[t] # r.blk,
           Mine(r) /\ \A h \in held : h.request # r,
           \/ cached[s] = r.blk /\ v = valid[s]
           \/ cached[s] # r.blk /\ v = {} /\ Vacant(s),
           \A e \in old : e[2] = s => cached[s] = r.blk,
           fresh' \subseteq Slots \X Offsets
    PROVE  Placed(s, r, v)
<1> USE DEF SInv
<1>1. r.blk \in Blocks
  BY RequestFacts
<1>2. PICK kept \in SUBSET old : tlb' = kept \cup {<<r.blk, s>>}
  BY DEF CheckoutAt, TlbAdd
<1>3. tlb' \subseteq Blocks \X Slots
  BY <1>1, <1>2 DEF TypeOK
<1>4. ASSUME NEW e \in tlb' PROVE cached'[e[2]] = e[1]
  <2>1. cached'[s] = r.blk /\ \A t \in Slots : t # s => cached'[t] = cached[t]
    BY <1>1 DEF TypeOK
  <2>2. CASE e \in old
    <3>1. cached[e[2]] = e[1] /\ e[2] \in Slots
      BY <2>2 DEF Keys, TypeOK
    <3>. QED BY <2>1, <2>2, <3>1
  <2>3. CASE e = <<r.blk, s>>
    BY <2>1, <2>3
  <2>. QED BY <1>2, <2>2, <2>3
<1>5. lru' = MovedToBack(s) /\ TakeOut(s, r, v)
  BY DEF CheckoutAt
<1>6. CASE mapped[s] = r.blk
  <2>1. to_map' = to_map /\ completed' = (completed /\ ~Begins(r, v))
    BY <1>6 DEF CheckoutAt
  <2>2. completed' \in BOOLEAN /\ (completed' => completed /\ ~Begins(r, v))
    BY <2>1 DEF TypeOK
  <2>. QED BY <1>3, <1>4, <1>5, <1>6, <2>1, <2>2 DEF Placed
<1>7. CASE mapped[s] # r.blk
  <2>1. to_map' = Append(to_map, s) /\ completed' = FALSE
    BY <1>7 DEF CheckoutAt
  <2>. QED BY <1>3, <1>4, <1>5, <2>1 DEF Placed
<1>. QED BY <1>6, <1>7

(* checkout_blk() finds the block.                                         *)
LEMMA CheckoutHitPlaced ==
    ASSUME SInv, NEW r \in Requests, CheckoutHit(r)
    PROVE  \E s \in Slots : Placed(s, r, valid[s]) /\ cached' = cached /\ fresh' = fresh
                            /\ cached[s] = r.blk
<1> USE DEF SInv
<1>1. Mine(r) /\ \A h \in held : h.request # r
  BY RequestedFacts DEF CheckoutHit, Requested
<1>2. PICK s \in Slots : cached[s] = r.blk /\ CheckoutAt(s, r, valid[s], tlb)
  BY DEF CheckoutHit
<1>3. cached' = cached /\ fresh' = fresh /\ fresh' \subseteq Slots \X Offsets
  BY DEF CheckoutHit, TypeOK
<1>4. /\ \A t \in Slots : t # s => cached[t] # r.blk
      /\ cached' = [cached EXCEPT ![s] = r.blk]
  BY <1>2, <1>3, OneSlot
<1>5. PICK old \in SUBSET tlb : old = tlb
  OBVIOUS
<1>6. Placed(s, r, valid[s])
  BY <1>1, <1>2, <1>3, <1>4, <1>5, CheckoutAtPlaced
<1>. QED BY <1>2, <1>3, <1>6

(* checkout_blk() gives the block an empty slot.                           *)
LEMMA CheckoutMissPlaced ==
    ASSUME SInv, NEW r \in Requests, CheckoutMiss(r)
    PROVE  \E s \in Slots : Placed(s, r, {}) /\ cached[s] # r.blk
                            /\ fresh' = {p \in fresh : p[1] # s}
<1> USE DEF SInv
<1>1. Mine(r) /\ \A h \in held : h.request # r
  BY RequestedFacts DEF CheckoutMiss
<1>2. PICK s \in EmptySlots :
         /\ cached' = [cached EXCEPT ![s] = r.blk]
         /\ fresh' = {p \in fresh : p[1] # s}
         /\ CheckoutAt(s, r, {}, IF cached[s] = NoBlock THEN tlb ELSE {})
  BY DEF CheckoutMiss
<1>3. s \in Slots /\ Vacant(s)
  BY VacantSlot
<1>4. \A t \in Slots : cached[t] # r.blk
  BY DEF CheckoutMiss, IsCached
<1>5. fresh' \subseteq Slots \X Offsets
  BY <1>2 DEF TypeOK
<1>6. PICK old \in SUBSET tlb : old = IF cached[s] = NoBlock THEN tlb ELSE {}
  OBVIOUS
<1>7. \A e \in old : e[2] = s => cached[s] = r.blk
  BY <1>3, <1>6, CacheAssumption DEF Keys, TypeOK
<1>8. Placed(s, r, {})
  BY <1>1, <1>2, <1>3, <1>4, <1>5, <1>6, <1>7, CheckoutAtPlaced
<1>. QED BY <1>2, <1>3, <1>4, <1>8

--------------------------------------------------------------------------------
(* The dirty bytes that writeback_begin() gets are valid.                  *)
Backed(d) == \A s \in Slots : /\ d[s] \subseteq valid[s]
                              /\ \A o \in Offsets : <<s, o>> \in gets => o \notin d[s]

(* Keys and flights after writeback_begin().                               *)
LEMMA WritebackKeysFlights ==
    ASSUME SInv, NEW d, NEW list, Listed(d, list), Backed(d), writeback_begin(d, list),
           UNCHANGED <<cached, lru, valid, tlb, wire, fresh, gets>>
    PROVE  Keys' /\ Flights'
<1> USE DEF SInv
<1>1. DistinctKeys
  BY DEF Keys, DistinctKeys
<1>2. FlightsKnown
  BY DEF Flights, Flight, FlightsKnown
<1>3. /\ dirty' = [s \in Slots |-> {}] /\ dirty_cache_blocks' = <<>>
      /\ \A s \in Slots : s \in writing' => s \in writing \/ d[s] # {}
      /\ \A s \in Slots, o \in Offsets :
            /\ <<s, o>> \in puts' => /\ s \in writing'
                                     /\ <<s, o>> \in puts \/ (o \in d[s] /\ ~OnWire(s, o))
            /\ OnWire(s, o) => s \in writing' /\ d[s] = {}
  BY <1>1, <1>2, WritebackBegins
<1>4. Keys'
  <2>1. \A s \in Slots : cached[s] = NoBlock => s \notin writing'
    BY <1>3 DEF Keys, Listed
  <2>2. \A s \in Slots : dirty'[s] = {}
    BY <1>3
  <2>3. cached' = cached /\ lru' = lru /\ valid' = valid /\ tlb' = tlb
    OBVIOUS
  <2>. QED BY <2>1, <2>2, <2>3 DEF Keys
<1>5. ASSUME NEW s \in Slots, NEW o \in Offsets PROVE Flight(s, o)'
  <2>1. Flight(s, o)
    BY DEF Flights
  <2>2. /\ <<s, o>> \in puts' => s \in writing' /\ (<<s, o>> \in puts \/ (o \in d[s] /\ ~OnWire(s, o)))
        /\ OnWire(s, o) => s \in writing'
        /\ dirty'[s] = {}
    BY <1>3
  <2>3. /\ OnWire(s, o)' <=> OnWire(s, o)
        /\ wire' = wire /\ valid' = valid /\ gets' = gets
    BY DEF OnWire
  <2>4. o \in d[s] => o \in valid[s] /\ <<s, o>> \notin gets
    BY DEF Backed
  <2>. QED BY <2>1, <2>2, <2>3, <2>4 DEF Flight, InFlight
<1>. QED BY <1>4, <1>5 DEF Flights

(* The types of what writeback_begin() changes.                            *)
LEMMA WritebackType ==
    ASSUME SInv, NEW d, NEW list, Listed(d, list), writeback_begin(d, list),
           UNCHANGED <<cached, wire, fresh>>
    PROVE  /\ dirty' \in [Slots -> SUBSET Offsets] /\ dirty_cache_blocks' \in Seq(Slots)
           /\ writing' \subseteq Slots /\ puts' \subseteq Slots \X Offsets /\ home' \subseteq Bytes
           /\ dirty' = [s \in Slots |-> {}] /\ dirty_cache_blocks' = <<>>
           /\ (\A s \in Slots : d[s] = {}) => writing' = writing
<1>1. DistinctKeys
  BY DEF SInv, Keys, DistinctKeys
<1>2. FlightsKnown
  BY DEF SInv, Flights, Flight, FlightsKnown
<1>3. /\ dirty' = [s \in Slots |-> {}] /\ dirty_cache_blocks' = <<>>
      /\ writing' \subseteq Slots /\ puts' \subseteq Slots \X Offsets /\ home' \subseteq Bytes
      /\ (\A s \in Slots : d[s] = {}) => writing' = writing
  BY <1>1, <1>2, WritebackBegins DEF SInv
<1>. QED BY <1>3

(* The list of dirty blocks is complete.                                   *)
LEMMA DirtyListed == ASSUME SInv PROVE Listed(dirty, dirty_cache_blocks) /\ Backed(dirty)
BY DEF SInv, Listed, Backed, Keys, TypeOK, Flights, Flight

(* When ensure_all_cache_clean() is called, and what for.                  *)
CleanFor(name, r) ==
    /\ name \in {"release", "acquire", "free_coll", "set_readonly", "checkout"}
    /\ r \in Requests \cup {NoReq}
    /\ name = "checkout" => /\ r \in Requests /\ Mine(r)
                            /\ \A h \in held : h.request # r
    /\ name # "checkout" => pc = "run" /\ held = {}
    /\ name \in {"free_coll", "set_readonly"} => r \in Requests
    /\ SetAfterAcquire /\ name = "set_readonly" =>
          \A s \in Slots : \A o \in valid[s] : <<cached[s], o>> \in readonly

(* ensure_all_cache_clean() begins.                                        *)
LEMMA CleanCallSInv ==
    ASSUME SInv, NEW name, NEW r, CleanFor(name, r), CleanCall(name, r)
    PROVE  SInv'
<1> USE DEF SInv
<1>1. /\ writeback_begin(dirty, dirty_cache_blocks)
      /\ pc' = "complete" /\ op' = name /\ req' = r
      /\ UNCHANGED <<cached, lru, valid, ref_count, mapVars, has_dirty_cache, fetchVars, wire, fresh,
                     readonly, tlb, owner, held>>
  BY DEF CleanCall
<1>2. gets' = gets /\ fetching' = fetching /\ completed' = completed
  BY <1>1 DEF fetchVars
<1>3. mapped' = mapped /\ vm' = vm /\ to_map' = to_map
  BY <1>1 DEF mapVars
<1>4. Keys' /\ Flights'
  BY <1>1, <1>2, DirtyListed, WritebackKeysFlights
<1>5. /\ dirty' \in [Slots -> SUBSET Offsets] /\ dirty_cache_blocks' \in Seq(Slots)
      /\ writing' \subseteq Slots /\ puts' \subseteq Slots \X Offsets /\ home' \subseteq Bytes
      /\ dirty' = [s \in Slots |-> {}] /\ dirty_cache_blocks' = <<>>
      /\ Clean => writing' = writing
  BY <1>1, DirtyListed, WritebackType DEF Clean
<1>6. TypeOK'
  BY <1>1, <1>2, <1>3, <1>5 DEF TypeOK, CleanFor
<1>7. Maps'
  BY <1>1, <1>2, <1>3, MapsFrame
<1>8. Rights'
  <2>1. \A s \in Slots : Users(s)' = Users(s)
    BY <1>1 DEF Users
  <2>2. \A q : Mine(q)' <=> Mine(q)
    BY <1>1 DEF Mine
  <2>3. op' = "checkout" => /\ req' \in Requests /\ Mine(req)'
                            /\ \A h \in held : h.request # req'
    <3>1. name = "checkout" => r \in Requests /\ Mine(r)' /\ \A h \in held : h.request # r
      BY <2>2 DEF CleanFor
    <3>2. Mine(r)' => Mine(req)'
      BY <1>1 DEF Mine
    <3>. QED BY <1>1, <3>1, <3>2
  <2>4. \A h \in held : Mine(h.request)'
    BY <2>2 DEF Rights
  <2>. QED BY <1>1, <2>1, <2>3, <2>4 DEF Rights
<1>9. Calls'
  <2>1. Clean'
    BY <1>5 DEF Clean
  <2>2. ~has_dirty_cache => writing' = {}
    BY <1>5 DEF Calls
  <2>3. Alone' => completed /\ held = {}
    BY <1>1 DEF Alone, CleanFor, Calls
  <2>. QED BY <1>1, <1>2, <1>3, <1>5, <2>1, <2>2, <2>3 DEF Calls, CleanFor
<1>. QED BY <1>4, <1>6, <1>7, <1>8, <1>9

(* The calls of ensure_all_cache_clean().                                  *)
LEMMA CallersSInv ==
    ASSUME SInv,
           \/ \E r \in Requests : CheckoutFull(r)
           \/ release \/ acquire
           \/ \E blk \in Blocks : free_coll(blk) \/ set_readonly_coll(blk)
    PROVE  SInv'
<1>1. ASSUME NEW r \in Requests, CheckoutFull(r) PROVE SInv'
  <2>1. CleanCall("checkout", r) /\ Requested(r)
    BY <1>1 DEF CheckoutFull, Requested
  <2>2. CleanFor("checkout", r)
    BY <2>1, RequestedFacts DEF CleanFor
  <2>. QED BY <2>1, <2>2, CleanCallSInv
<1>2. ASSUME release PROVE SInv'
  <2>1. CleanFor("release", NoReq) /\ CleanCall("release", NoReq)
    BY <1>2 DEF release, Outside, CleanFor
  <2>. QED BY <2>1, CleanCallSInv
<1>3. ASSUME acquire PROVE SInv'
  <2>1. CleanFor("acquire", NoReq) /\ CleanCall("acquire", NoReq)
    BY <1>3 DEF acquire, Outside, CleanFor
  <2>. QED BY <2>1, CleanCallSInv
<1>4. ASSUME NEW blk \in Blocks, free_coll(blk) PROVE SInv'
  <2>1. PICK r \in Requests : r = [blk |-> blk, reg |-> Offsets, mode |-> "write"]
    BY RequestFacts
  <2>2. CleanFor("free_coll", r) /\ CleanCall("free_coll", r)
    BY <1>4, <2>1 DEF free_coll, Outside, CleanFor
  <2>. QED BY <2>2, CleanCallSInv
<1>5. ASSUME NEW blk \in Blocks, set_readonly_coll(blk) PROVE SInv'
  <2>1. PICK r \in Requests : r = [blk |-> blk, reg |-> Offsets, mode |-> "read"]
    BY RequestFacts
  <2>2. CleanCall("set_readonly", r) /\ pc = "run" /\ held = {}
    BY <1>5, <2>1 DEF set_readonly_coll, Outside
  <2>3. SetAfterAcquire => \A s \in Slots : \A o \in valid[s] : <<cached[s], o>> \in readonly
    BY <1>5 DEF set_readonly_coll
  <2>4. CleanFor("set_readonly", r)
    BY <2>2, <2>3 DEF CleanFor
  <2>. QED BY <2>2, <2>4, CleanCallSInv
<1>. QED BY <1>1, <1>2, <1>3, <1>4, <1>5

(* Nothing is in flight when nothing is being written back.                *)
LEMMA NoFlight ==
    ASSUME SInv, writing # {} => Flushed
    PROVE  puts = {} /\ wire = {}
<1> USE DEF SInv
<1>1. CASE writing # {}
  BY <1>1 DEF Flushed
<1>2. CASE writing = {}
  <2>1. \A s \in Slots, o \in Offsets : <<s, o>> \notin puts /\ ~OnWire(s, o)
    BY <1>2 DEF Flights, Flight, InFlight
  <2>2. puts = {}
    BY <2>1 DEF TypeOK
  <2>3. ASSUME NEW w \in wire PROVE FALSE
    <3>1. PICK s \in Slots, o \in Offsets, v \in BOOLEAN : w = <<s, o, v>>
      BY DEF TypeOK
    <3>. QED BY <2>1, <3>1 DEF OnWire
  <2>. QED BY <2>2, <2>3
<1>. QED BY <1>1, <1>2

(* A list that is empty, and all blocks are clean.                         *)
LEMMA CleanIfListEmpty == ASSUME SInv, dirty_cache_blocks = <<>> PROVE Clean
BY DEF SInv, Keys, Clean

(* All puts have landed.                                                   *)
LEMMA WritebackCompleteSInv == ASSUME SInv, writeback_complete PROVE SInv'
<1> USE DEF SInv
<1>1. /\ pc = "complete" /\ (writing # {} => Flushed) /\ writing' = {}
      /\ has_dirty_cache' = (has_dirty_cache /\ ~AllClean)
      /\ owner' = IF AllClean THEN EpochAdvanced ELSE owner
      /\ op' = "none"
      /\ UNCHANGED <<slotVars, mapVars, dirty_cache_blocks, fetchVars, dataVars, readonly, tlb,
                     held, req>>
  BY DEF writeback_complete
<1>2. /\ op = "release" => pc' = "run"
      /\ op = "acquire" => pc' = "invalidate"
      /\ op = "free_coll" => pc' = "evict"
      /\ op = "set_readonly" => pc' = "set"
      /\ op = "checkout" => pc' = "retry"
      /\ op \in {"release", "acquire", "free_coll", "set_readonly", "checkout"}
  BY <1>1 DEF writeback_complete, Calls, TypeOK
<1>3. puts = {} /\ wire = {}
  BY <1>1, NoFlight
<1>4. /\ \A b \in Bytes : owner[b] = "mine" => owner'[b] = "mine"
      /\ owner' \in [Bytes -> {"mine", "offered", "theirs"}]
  BY <1>1 DEF EpochAdvanced, TypeOK
<1>5. has_dirty_cache' \in BOOLEAN
  BY <1>1 DEF TypeOK
<1>6. TypeOK'
  BY <1>1, <1>2, <1>4, <1>5 DEF TypeOK, slotVars, mapVars, fetchVars, dataVars
<1>7. Keys'
  BY <1>1, KeysFrame DEF slotVars
<1>8. Rights'
  BY <1>1, <1>2, <1>4, RightsFrame DEF slotVars
<1>9. Maps'
  BY <1>1, MapsFrame DEF slotVars, mapVars, fetchVars
<1>10. Calls'
  BY <1>1, <1>2 DEF Calls, Alone, Clean, slotVars, mapVars, fetchVars
<1>11. Flights'
  BY <1>1, <1>3 DEF Flights, Flight, InFlight, OnWire, slotVars, fetchVars, dataVars
<1>. QED BY <1>6, <1>7, <1>8, <1>9, <1>10, <1>11

(* acquire() forgets what is valid.                                        *)
LEMMA InvalidateAllSInv ==
    ASSUME SInv, NEW got \in SUBSET Bytes, invalidate_all(got) PROVE SInv'
<1> USE DEF SInv
<1>1. /\ pc = "invalidate"
      /\ valid' = [s \in Slots |-> {o \in valid[s] : <<cached[s], o>> \in readonly}]
      /\ owner' = [b \in Bytes |-> IF b \in got THEN "mine" ELSE owner[b]]
      /\ pc' = "run"
      /\ UNCHANGED <<cached, lru, dirty, ref_count, mapVars, writeVars, fetchVars, dataVars,
                     op, req, readonly, tlb, held>>
  BY DEF invalidate_all
<1>2. /\ held = {} /\ completed /\ writing = {} /\ Clean /\ gets = {} /\ to_map = <<>>
  BY <1>1 DEF Calls, Alone
<1>3. puts = {} /\ wire = {}
  BY <1>2, NoFlight
<1>4. /\ valid' \in [Slots -> SUBSET Offsets]
      /\ \A s \in Slots : valid'[s] \subseteq valid[s]
  BY <1>1 DEF TypeOK
<1>5. TypeOK'
  BY <1>1, <1>4 DEF TypeOK, mapVars, writeVars, fetchVars, dataVars
<1>6. Keys'
  BY <1>1, <1>2, <1>4 DEF Keys, Clean, writeVars
<1>7. Rights'
  <2>1. held' = {} /\ \A s \in Slots : Users(s)' = Users(s)
    BY <1>1, <1>2 DEF Users
  <2>. QED BY <1>1, <2>1 DEF Rights
<1>8. Maps'
  BY <1>1, MapsFrame DEF mapVars, fetchVars
<1>9. Calls'
  BY <1>1, <1>2 DEF Calls, Alone, Clean, mapVars, writeVars, fetchVars
<1>10. Flights'
  BY <1>1, <1>2, <1>3 DEF Flights, Flight, InFlight, OnWire, fetchVars, dataVars
<1>. QED BY <1>5, <1>6, <1>7, <1>8, <1>9, <1>10

(* Rights, when nothing is checked out.                                    *)
LEMMA RightsAlone ==
    ASSUME Rights, held = {}, UNCHANGED <<held, ref_count>>, pc' = "run"
    PROVE  Rights'
<1>1. \A s \in Slots : Users(s) = {} /\ Users(s)' = {}
  BY DEF Users
<1>. QED BY <1>1 DEF Rights

(* release_lazy() gives a byte away.                                       *)
LEMMA ReleaseLazySInv == ASSUME SInv, NEW b \in Bytes, release_lazy(b) PROVE SInv'
<1> USE DEF SInv
<1>1. /\ pc = "run" /\ held = {}
      /\ owner' = [owner EXCEPT ![b] = IF has_dirty_cache THEN "offered" ELSE "theirs"]
      /\ UNCHANGED <<slotVars, mapVars, writeVars, fetchVars, dataVars, callVars,
                     readonly, tlb, held>>
  BY DEF release_lazy, Outside
<1>2. owner' \in [Bytes -> {"mine", "offered", "theirs"}]
  BY <1>1 DEF TypeOK
<1>3. TypeOK'
  BY <1>1, <1>2 DEF TypeOK, slotVars, mapVars, writeVars, fetchVars, dataVars, callVars
<1>4. Keys' /\ Rights' /\ Maps' /\ Flights' /\ Calls'
  BY <1>1, KeysFrame, RightsAlone, MapsFrame, FlightsFrame, CallsFrame
     DEF slotVars, mapVars, writeVars, fetchVars, dataVars, callVars
<1>. QED BY <1>3, <1>4

(* set_readonly_coll() ends.                                               *)
LEMMA SetReadonlySInv == ASSUME SInv, SetReadonly PROVE SInv'
<1> USE DEF SInv
<1>1. /\ pc = "set" /\ readonly' = readonly \cup Part(req) /\ pc' = "run" /\ req' = NoReq
      /\ UNCHANGED <<slotVars, mapVars, writeVars, fetchVars, dataVars, op, tlb, owner, held>>
  BY DEF SetReadonly
<1>2. held = {} /\ completed /\ req \in Requests
  BY <1>1 DEF Calls, Alone
<1>3. Part(req) \subseteq Bytes
  BY <1>2, RequestFacts DEF Part, Bytes
<1>4. TypeOK'
  BY <1>1, <1>3 DEF TypeOK, slotVars, mapVars, writeVars, fetchVars, dataVars
<1>5. Keys' /\ Rights' /\ Maps' /\ Flights'
  BY <1>1, <1>2, KeysFrame, RightsAlone, MapsFrame, FlightsFrame
     DEF slotVars, mapVars, writeVars, fetchVars, dataVars
<1>6. Calls'
  BY <1>1, <1>2 DEF Calls, Alone, Clean, slotVars, mapVars, writeVars, fetchVars
<1>. QED BY <1>4, <1>5, <1>6

(* unset_readonly_coll().                                                  *)
LEMMA UnsetReadonlySInv == ASSUME SInv, NEW blk \in Blocks, unset_readonly_coll(blk) PROVE SInv'
<1> USE DEF SInv
<1>1. /\ pc = "run" /\ held = {} /\ readonly' = readonly \ BlockBytes(blk)
      /\ UNCHANGED <<slotVars, mapVars, writeVars, fetchVars, dataVars, callVars,
                     tlb, owner, held>>
  BY DEF unset_readonly_coll, Outside
<1>2. TypeOK'
  BY <1>1 DEF TypeOK, slotVars, mapVars, writeVars, fetchVars, dataVars, callVars
<1>3. Keys' /\ Rights' /\ Maps' /\ Flights'
  BY <1>1, KeysFrame, RightsAlone, MapsFrame, FlightsFrame
     DEF slotVars, mapVars, writeVars, fetchVars, dataVars, callVars
<1>4. Calls'
  BY <1>1 DEF Calls, Alone, Clean, slotVars, mapVars, writeVars, fetchVars, callVars
<1>. QED BY <1>2, <1>3, <1>4

(* free_coll() evicts its block.                                           *)
LEMMA EnsureEvictedSInv == ASSUME SInv, ensure_evicted PROVE SInv'
<1> USE DEF SInv
<1>1. PICK blk : blk = req.blk
  OBVIOUS
<1>2. PICK hit : hit = {s \in Slots : cached[s] = blk}
  OBVIOUS
<1>3. /\ pc = "evict"
      /\ cached' = [s \in Slots |-> IF s \in hit THEN NoBlock ELSE cached[s]]
      /\ mapped' = [s \in Slots |-> IF s \in hit THEN NoBlock ELSE mapped[s]]
      /\ valid' = [s \in Slots |-> IF s \in hit THEN {} ELSE valid[s]]
      /\ tlb' = {}
      /\ vm' = [vm EXCEPT ![blk] = NoSlot]
      /\ home' = home \cup BlockBytes(blk)
      /\ fresh' = {p \in fresh : p[1] \notin hit}
      /\ pc' = "run" /\ req' = NoReq
      /\ UNCHANGED <<lru, dirty, ref_count, to_map, writeVars, fetchVars, puts, wire, op,
                     readonly, owner, held>>
  BY <1>1, <1>2 DEF ensure_evicted
<1>4. /\ held = {} /\ completed /\ writing = {} /\ Clean /\ gets = {} /\ to_map = <<>>
      /\ req \in Requests
  BY <1>3 DEF Calls, Alone
<1>5. blk \in Blocks /\ blk # NoBlock
  BY <1>1, <1>4, RequestFacts, CacheAssumption
<1>6. puts = {} /\ wire = {}
  BY <1>4, NoFlight
<1>7. home' \subseteq Bytes /\ fresh' \subseteq Slots \X Offsets
  BY <1>3, <1>5 DEF TypeOK, BlockBytes, Bytes
<1>8. /\ cached' \in [Slots -> Blocks \cup {NoBlock}] /\ mapped' \in [Slots -> Blocks \cup {NoBlock}]
      /\ valid' \in [Slots -> SUBSET Offsets] /\ vm' \in [Blocks -> Slots \cup {NoSlot}]
  BY <1>3, <1>5 DEF TypeOK
<1>9. TypeOK'
  BY <1>3, <1>7, <1>8 DEF TypeOK, writeVars, fetchVars
<1>10. Keys'
  BY <1>3, <1>4 DEF Keys, Clean, writeVars
<1>11. Rights'
  BY <1>3, <1>4, RightsAlone
<1>12. Calls'
  BY <1>3, <1>4 DEF Calls, Alone, Clean, writeVars, fetchVars
<1>13. Flights'
  BY <1>3, <1>4, <1>6 DEF Flights, Flight, InFlight, OnWire, fetchVars
<1>14. Maps'
  <2>1. \A s \in Slots : mapped[s] = cached[s]
    BY <1>4 DEF Maps, ToMap
  <2>2. to_map' = <<>> /\ gets' = {}
    BY <1>3, <1>4 DEF fetchVars
  <2>3. ASSUME NEW b \in Blocks, NEW s \in Slots PROVE vm'[b] = s <=> mapped'[s] = b
    <3>1. vm'[b] = IF b = blk THEN NoSlot ELSE vm[b]
      BY <1>3, <1>5 DEF TypeOK
    <3>2. mapped'[s] = IF cached[s] = blk THEN NoBlock ELSE mapped[s]
      BY <1>2, <1>3
    <3>3. vm[b] = s <=> mapped[s] = b
      BY DEF Maps
    <3>. QED BY <2>1, <3>1, <3>2, <3>3, CacheAssumption
  <2>4. \A s \in Slots : mapped'[s] = cached'[s]
    BY <1>3, <2>1
  <2>. QED BY <2>2, <2>3, <2>4 DEF Maps, ToMap
<1>. QED BY <1>9, <1>10, <1>11, <1>12, <1>13, <1>14

(* free() forgets the dirty bytes of an object.                            *)
LEMMA DiscardDirtySInv == ASSUME SInv, NEW b \in Bytes, discard_dirty(b) PROVE SInv'
<1> USE DEF SInv
<1> DEFINE hit == {s \in Slots : cached[s] = b[1]}
           complete == hit \cap writing # {}
<1>1. hit \subseteq Slots
  OBVIOUS
<1>3. /\ pc = "run" /\ held = {} /\ owner[b] = "mine" /\ b \notin readonly
      /\ lru' = IF hit = {} THEN lru ELSE MovedToBack(CHOOSE s \in hit : TRUE)
      /\ dirty' = [s \in Slots |-> IF s \in hit THEN dirty[s] \ {b[2]} ELSE dirty[s]]
      /\ complete => Flushed
      /\ home' = home \cup {b} /\ fresh' = Without({b} \ home) /\ wire' = Outdated({b} \ home)
      /\ writing' = (IF complete THEN {} ELSE writing)
      /\ has_dirty_cache' = (has_dirty_cache /\ ~(complete /\ AllClean))
      /\ owner' = [(IF complete /\ AllClean THEN EpochAdvanced ELSE owner) EXCEPT ![b] = "theirs"]
      /\ UNCHANGED <<cached, valid, ref_count, mapVars, dirty_cache_blocks, fetchVars, puts, callVars,
                     readonly, tlb, held>>
  BY DEF discard_dirty, Outside, Reverted
<1> HIDE DEF hit, complete
<1>4. completed /\ gets = {} /\ to_map = <<>>
  BY <1>3 DEF Calls
<1>5. /\ lru' \in [Slots -> Slots]
      /\ \A s \in Slots : \E i \in Slots : lru'[i] = s
      /\ \A i, j \in Slots : lru'[i] = lru'[j] => i = j
  <2>1. CASE hit = {}
    BY <1>3, <2>1 DEF Keys, TypeOK
  <2>2. CASE hit # {}
    <3>1. PICK s \in Slots : lru' = MovedToBack(s)
      BY <1>1, <1>3, <2>2
    <3>. QED BY <3>1, MovedToBackFacts, ZenonT(30)
  <2>. QED BY <2>1, <2>2
<1>6. /\ dirty' \in [Slots -> SUBSET Offsets]
      /\ \A s \in Slots : dirty'[s] \subseteq dirty[s]
  BY <1>3 DEF TypeOK
<1>7. writing' \subseteq writing
  BY <1>3
<1>8. has_dirty_cache' \in BOOLEAN
  BY <1>3 DEF TypeOK
<1>9. owner' \in [Bytes -> {"mine", "offered", "theirs"}]
  BY <1>3 DEF TypeOK, EpochAdvanced
<1>10. wire' \subseteq Slots \X Offsets \X BOOLEAN /\ fresh' \subseteq fresh
  BY <1>3, OutdatedFacts DEF Without
<1>11. TypeOK'
  BY <1>3, <1>5, <1>6, <1>7, <1>8, <1>9, <1>10 DEF TypeOK, mapVars, fetchVars, callVars
<1>12. Keys'
  BY <1>3, <1>5, <1>6, <1>7, KeysShrink, Zenon
<1>13. Rights'
  BY <1>3, RightsAlone DEF callVars
<1>14. Maps'
  BY <1>3, MapsFrame DEF mapVars, fetchVars
<1>15. Calls'
  <2>1. ~has_dirty_cache' => Clean /\ writing' = {}
    <3>1. CASE complete /\ AllClean
      BY <1>3, <3>1, CleanIfListEmpty DEF AllClean
    <3>2. CASE ~(complete /\ AllClean)
      BY <1>3, <1>7, <3>2 DEF Calls, TypeOK
    <3>. QED BY <3>1, <3>2
  <2>2. Clean => Clean'
    BY <1>6 DEF Clean
  <2>. QED BY <1>3, <1>4, <2>1, <2>2 DEF Calls, Alone, mapVars, fetchVars, callVars
<1>16. ASSUME NEW s \in Slots, NEW o \in Offsets PROVE Flight(s, o)'
  <2>1. Flight(s, o)
    BY DEF Flights
  <2>2. /\ <<s, o, TRUE>> \in wire' => <<s, o, TRUE>> \in wire /\ <<cached[s], o>> \notin {b} \ home
        /\ <<s, o, FALSE>> \in wire' => \/ <<s, o, FALSE>> \in wire
                                        \/ <<s, o, TRUE>> \in wire /\ <<cached[s], o>> \in {b} \ home
    BY <1>3, OutdatedFacts
  <2>3. OnWire(s, o)' => OnWire(s, o)
    BY <2>2 DEF OnWire
  <2>4. puts' = puts /\ gets' = {} /\ valid' = valid
    BY <1>3, <1>4 DEF fetchVars
  <2>5. InFlight(s, o)' => s \in writing'
    <3>1. CASE complete
      <4>1. puts' = {} /\ ~OnWire(s, o)
        BY <1>3, <2>4, <3>1 DEF Flushed, OnWire
      <4>. QED BY <2>3, <4>1 DEF InFlight
    <3>2. CASE ~complete
      BY <1>3, <2>1, <2>3, <2>4, <3>2 DEF InFlight, Flight
    <3>. QED BY <3>1, <3>2
  <2>. QED BY <2>1, <2>2, <2>3, <2>4, <2>5 DEF Flight, InFlight
<1>. QED BY <1>11, <1>12, <1>13, <1>14, <1>15, <1>16 DEF Flights

--------------------------------------------------------------------------------
(***************************************************************************)
(* checkin(): the region is added to the dirty bytes, if it may have been  *)
(* written, and that may begin a write-back.                               *)
(***************************************************************************)
Dirtied(s, reg) == [dirty EXCEPT ![s] = @ \cup reg]

ListedWith(s) ==
    \/ dirty[s] = {} /\ dirty_cache_blocks' = Append(dirty_cache_blocks, s)
    \/ dirty[s] # {} /\ dirty_cache_blocks' = dirty_cache_blocks

Returned(s, r) ==
    \/ r.mode = "read" /\ UNCHANGED <<dirty, writeVars, puts, home>>
    \/ /\ r.mode # "read" /\ has_dirty_cache' = TRUE
       /\ dirty' = Dirtied(s, r.reg) /\ ListedWith(s) /\ UNCHANGED <<puts, home, writing>>
    \/ /\ r.mode # "read" /\ has_dirty_cache' = TRUE
       /\ \E list : /\ Listed(Dirtied(s, r.reg), list) /\ Backed(Dirtied(s, r.reg))
                    /\ writeback_begin(Dirtied(s, r.reg), list)

(* What checkin() does.                                                    *)
LEMMA CheckinFacts ==
    ASSUME SInv, NEW h \in held, checkin(h)
    PROVE  /\ pc = "run" /\ h.request \in Requests
           /\ h.request.mode = "write" => h.written
           /\ held' = held \ {h}
           /\ UNCHANGED <<cached, lru, valid, mapVars, fetchVars, wire, fresh, callVars,
                          readonly, tlb, owner>>
           /\ completed /\ gets = {} /\ to_map = <<>>
           /\ \E s \in Slots : /\ cached[s] = h.request.blk /\ h.request.reg \subseteq valid[s]
                               /\ \A t \in Slots : t # s => cached[t] # h.request.blk
                               /\ ref_count' = [ref_count EXCEPT ![s] = @ - 1]
                               /\ Returned(s, h.request)
<1> USE DEF SInv
<1>1. /\ pc = "run" /\ (h.request.mode = "write" => h.written) /\ held' = held \ {h}
      /\ UNCHANGED <<cached, lru, valid, mapVars, fetchVars, wire, fresh, callVars,
                     readonly, tlb, owner>>
  BY DEF checkin
<1>2. PICK s \in Lookup(h.request.blk) :
         /\ IF h.request.mode = "read"
            THEN UNCHANGED <<dirty, writeVars, puts, home>>
            ELSE add_dirty_region(s, h.request.reg)
         /\ ref_count' = [ref_count EXCEPT ![s] = @ - 1]
  BY DEF checkin
<1>3. PICK r \in Requests : r = h.request
  BY HeldFacts
<1>4. s \in Slots /\ cached[s] = r.blk
  <2>1. s \in Slots /\ (<<r.blk, s>> \in tlb \/ cached[s] = r.blk)
    BY <1>2, <1>3 DEF Lookup
  <2>2. ASSUME NEW e \in tlb, e = <<r.blk, s>> PROVE cached[s] = r.blk
    BY <2>2 DEF Keys
  <2>. QED BY <2>1, <2>2
<1>5. \A t \in Slots : t # s => cached[t] # r.blk
  BY <1>4, OneSlot
<1>6. r.reg \subseteq valid[s] /\ r.reg \subseteq Offsets
  <2>1. PICK t \in Slots : cached[t] = r.blk /\ r.reg \subseteq valid[t]
    BY <1>3 DEF Rights
  <2>. QED BY <1>5, <2>1 DEF TypeOK
<1>7. completed /\ gets = {} /\ to_map = <<>>
  BY <1>1 DEF Calls
<1>8. Returned(s, r)
  <2>1. CASE r.mode = "read"
    BY <1>2, <1>3, <2>1 DEF Returned
  <2>2. CASE r.mode # "read"
    <3>1. PICK list : list = IF dirty[s] = {} THEN Append(dirty_cache_blocks, s)
                                              ELSE dirty_cache_blocks
      OBVIOUS
    <3>2. /\ has_dirty_cache' = (has_dirty_cache \/ dirty[s] = {})
          /\ IF dirty[s] = {} /\ Len(list) >= max_dirty_cache_blocks
             THEN writeback_begin(Dirtied(s, r.reg), list)
             ELSE /\ dirty' = Dirtied(s, r.reg) /\ dirty_cache_blocks' = list
                  /\ UNCHANGED <<puts, home, writing>>
      BY <1>2, <1>3, <2>2, <3>1 DEF add_dirty_region, Dirtied
    <3>3. has_dirty_cache' = TRUE
      BY <1>4, <3>2 DEF Calls, Clean, TypeOK
    <3>4. /\ Dirtied(s, r.reg) \in [Slots -> SUBSET Offsets]
          /\ Dirtied(s, r.reg)[s] = dirty[s] \cup r.reg
          /\ \A t \in Slots : t # s => Dirtied(s, r.reg)[t] = dirty[t]
      BY <1>4, <1>6 DEF Dirtied, TypeOK
    <3>5. /\ list \in Seq(Slots) /\ \E i \in DOMAIN list : list[i] = s
          /\ \A t \in Slots : dirty[t] # {} => \E i \in DOMAIN list : list[i] = t
      <4>1. CASE dirty[s] = {}
        <5>1. PICK n \in Nat : /\ n = Len(dirty_cache_blocks) /\ DOMAIN dirty_cache_blocks = 1..n
          BY DEF TypeOK
        <5>2. /\ list \in Seq(Slots) /\ DOMAIN list = 1..(n + 1) /\ list[n + 1] = s
              /\ \A i \in 1..n : list[i] = dirty_cache_blocks[i]
          BY <1>4, <3>1, <4>1, <5>1 DEF TypeOK
        <5>3. \A t \in Slots : dirty[t] # {} => \E i \in 1..n : dirty_cache_blocks[i] = t
          BY <5>1 DEF Keys
        <5>. QED BY <5>2, <5>3
      <4>2. CASE dirty[s] # {}
        BY <1>4, <3>1, <4>2 DEF Keys, TypeOK
      <4>. QED BY <4>1, <4>2
    <3>6. Listed(Dirtied(s, r.reg), list)
      <4>1. cached[s] # NoBlock
        BY <1>4, RequestFacts, CacheAssumption
      <4>2. \A t \in Slots : dirty[t] # {} => cached[t] # NoBlock
        BY DEF Keys
      <4>. QED BY <3>4, <3>5, <4>1, <4>2 DEF Listed
    <3>7. Backed(Dirtied(s, r.reg))
      BY <1>6, <1>7, <3>4 DEF Backed, Keys
    <3>8. CASE dirty[s] = {} /\ Len(list) >= max_dirty_cache_blocks
      BY <2>2, <3>2, <3>3, <3>6, <3>7, <3>8 DEF Returned
    <3>9. CASE ~(dirty[s] = {} /\ Len(list) >= max_dirty_cache_blocks)
      BY <2>2, <3>1, <3>2, <3>3, <3>9 DEF Returned, ListedWith
    <3>. QED BY <3>8, <3>9
  <2>. QED BY <2>1, <2>2
<1>. QED BY <1>1, <1>2, <1>3, <1>4, <1>5, <1>6, <1>7, <1>8

(* checkin() keeps keys and flights in order.                              *)
LEMMA ReturnedFacts ==
    ASSUME SInv, NEW s \in Slots, NEW r \in Requests,
           cached[s] = r.blk, r.reg \subseteq valid[s], Returned(s, r), gets = {},
           UNCHANGED <<cached, lru, valid, tlb, wire, fresh, gets>>
    PROVE  /\ Keys' /\ Flights'
           /\ dirty' \in [Slots -> SUBSET Offsets] /\ dirty_cache_blocks' \in Seq(Slots)
           /\ writing' \subseteq Slots /\ puts' \subseteq Slots \X Offsets /\ home' \subseteq Bytes
           /\ has_dirty_cache' \in BOOLEAN
           /\ ~has_dirty_cache' => Clean' /\ writing' = {}
<1> USE DEF SInv
<1>1. CASE r.mode = "read" /\ UNCHANGED <<dirty, writeVars, puts, home>>
  <2>1. Keys'
    BY <1>1, KeysFrame DEF writeVars
  <2>2. Flights'
    BY <1>1, FlightsFrame DEF writeVars
  <2>3. ~has_dirty_cache' => Clean' /\ writing' = {}
    BY <1>1 DEF Calls, Clean, writeVars
  <2>. QED BY <1>1, <2>1, <2>2, <2>3 DEF TypeOK, writeVars
<1>2. CASE /\ has_dirty_cache' = TRUE /\ dirty' = Dirtied(s, r.reg) /\ ListedWith(s)
           /\ UNCHANGED <<puts, home, writing>>
  <2>1. r.reg \subseteq Offsets
    BY RequestFacts
  <2>2. /\ dirty' \in [Slots -> SUBSET Offsets] /\ dirty'[s] = dirty[s] \cup r.reg
        /\ \A t \in Slots : t # s => dirty'[t] = dirty[t]
    BY <1>2, <2>1 DEF Dirtied, TypeOK
  <2>3. /\ dirty_cache_blocks' \in Seq(Slots)
        /\ \E i \in DOMAIN dirty_cache_blocks' : dirty_cache_blocks'[i] = s
        /\ \A t \in Slots : dirty[t] # {} =>
              \E i \in DOMAIN dirty_cache_blocks' : dirty_cache_blocks'[i] = t
    <3>1. CASE dirty[s] = {} /\ dirty_cache_blocks' = Append(dirty_cache_blocks, s)
      <4>1. PICK n \in Nat : /\ n = Len(dirty_cache_blocks) /\ DOMAIN dirty_cache_blocks = 1..n
        BY DEF TypeOK
      <4>2. /\ dirty_cache_blocks' \in Seq(Slots) /\ DOMAIN dirty_cache_blocks' = 1..(n + 1)
            /\ dirty_cache_blocks'[n + 1] = s
            /\ \A i \in 1..n : dirty_cache_blocks'[i] = dirty_cache_blocks[i]
        BY <3>1, <4>1 DEF TypeOK
      <4>3. \A t \in Slots : dirty[t] # {} => \E i \in 1..n : dirty_cache_blocks[i] = t
        BY <4>1 DEF Keys
      <4>. QED BY <4>2, <4>3
    <3>2. CASE dirty[s] # {} /\ dirty_cache_blocks' = dirty_cache_blocks
      BY <3>2 DEF Keys, TypeOK
    <3>. QED BY <1>2, <3>1, <3>2 DEF ListedWith
  <2>4. Keys'
    <3>1. \A t \in Slots : dirty'[t] \subseteq valid[t]
      BY <2>2 DEF Keys
    <3>2. \A t \in Slots : dirty'[t] # {} =>
             \E i \in DOMAIN dirty_cache_blocks' : dirty_cache_blocks'[i] = t
      BY <2>2, <2>3
    <3>3. writing' = writing /\ cached' = cached /\ lru' = lru /\ valid' = valid /\ tlb' = tlb
      BY <1>2
    <3>. QED BY <3>1, <3>2, <3>3 DEF Keys
  <2>5. Flights'
    <3>1. puts' = puts /\ wire' = wire /\ writing' = writing /\ valid' = valid /\ gets' = {}
      BY <1>2
    <3>. QED BY <3>1 DEF Flights, Flight, InFlight, OnWire
  <2>. QED BY <1>2, <2>2, <2>3, <2>4, <2>5 DEF TypeOK
<1>3. ASSUME has_dirty_cache' = TRUE, NEW list, Listed(Dirtied(s, r.reg), list),
             Backed(Dirtied(s, r.reg)), writeback_begin(Dirtied(s, r.reg), list)
      PROVE  /\ Keys' /\ Flights'
             /\ dirty' \in [Slots -> SUBSET Offsets] /\ dirty_cache_blocks' \in Seq(Slots)
             /\ writing' \subseteq Slots /\ puts' \subseteq Slots \X Offsets
             /\ home' \subseteq Bytes /\ has_dirty_cache'
  BY <1>3, WritebackKeysFlights, WritebackType
<1>. QED BY <1>1, <1>2, <1>3 DEF Returned

(* checkin().                                                              *)
LEMMA CheckinSInv == ASSUME SInv, NEW h \in held, checkin(h) PROVE SInv'
<1> USE DEF SInv
<1>1. /\ pc = "run" /\ h.request \in Requests /\ held' = held \ {h}
      /\ UNCHANGED <<cached, lru, valid, mapVars, fetchVars, wire, fresh, callVars,
                     readonly, tlb, owner>>
      /\ completed /\ gets = {} /\ to_map = <<>>
  BY CheckinFacts
<1>2. PICK s \in Slots : /\ cached[s] = h.request.blk /\ h.request.reg \subseteq valid[s]
                         /\ \A t \in Slots : t # s => cached[t] # h.request.blk
                         /\ ref_count' = [ref_count EXCEPT ![s] = @ - 1]
                         /\ Returned(s, h.request)
  BY CheckinFacts
<1>3. gets' = gets /\ fetching' = fetching /\ completed' = completed
  BY <1>1 DEF fetchVars
<1>4. /\ Keys' /\ Flights'
      /\ dirty' \in [Slots -> SUBSET Offsets] /\ dirty_cache_blocks' \in Seq(Slots)
      /\ writing' \subseteq Slots /\ puts' \subseteq Slots \X Offsets /\ home' \subseteq Bytes
      /\ has_dirty_cache' \in BOOLEAN
      /\ ~has_dirty_cache' => Clean' /\ writing' = {}
  BY <1>1, <1>2, <1>3, ReturnedFacts
<1>5. \A t \in Slots : Users(t)' = Users(t) \ {h}
  BY <1>1 DEF Users
<1>6. /\ IsFiniteSet(held') /\ h \in Users(s) /\ \A t \in Slots : IsFiniteSet(Users(t))
      /\ \A t \in Slots : t # s => Users(t) \ {h} = Users(t)
  BY <1>1, <1>2, FS_Subset DEF Rights, Users
<1>7. Cardinality(Users(s) \ {h}) = Cardinality(Users(s)) - 1 /\ IsFiniteSet(Users(s) \ {h})
  BY <1>6, FS_RemoveElement
<1>8. Cardinality(Users(s) \ {h}) \in Nat
  BY <1>7, FS_CardinalityType
<1>9. \A t \in Slots : ref_count[t] = Cardinality(Users(t))
  BY DEF Rights
<1>10. \A t \in Slots : ref_count'[t] = Cardinality(Users(t) \ {h})
  BY <1>2, <1>6, <1>7, <1>9 DEF TypeOK
<1>11. ref_count' \in [Slots -> Nat]
  BY <1>2, <1>7, <1>8, <1>9 DEF TypeOK
<1>12. TypeOK'
  BY <1>1, <1>4, <1>11 DEF TypeOK, mapVars, fetchVars, callVars
<1>13. Rights'
  <2>1. \A t \in Slots : (ref_count[t] = Cardinality(Users(t)))'
    BY <1>5, <1>10
  <2>2. \A g \in held' : Mine(g.request)'
    BY <1>1 DEF Rights, Mine
  <2>3. pc' = "run"
    BY <1>1 DEF callVars
  <2>. QED BY <1>1, <1>6, <2>1, <2>2, <2>3 DEF Rights
<1>14. Maps'
  BY <1>1, <1>3 DEF Maps, ToMap, mapVars
<1>15. Calls'
  <2>1. pc' = "run" /\ to_map' = to_map
    BY <1>1 DEF callVars, mapVars
  <2>. QED BY <1>1, <1>3, <1>4, <2>1 DEF Calls, Alone
<1>. QED BY <1>4, <1>12, <1>13, <1>14, <1>15

--------------------------------------------------------------------------------
(* The initial state.                                                      *)
LEMMA InitSInv == Init => SInv
<1> SUFFICES ASSUME Init PROVE SInv
  OBVIOUS
<1>1. TypeOK
  <2>1. /\ cached \in [Slots -> Blocks \cup {NoBlock}] /\ lru \in [Slots -> Slots]
        /\ valid \in [Slots -> SUBSET Offsets] /\ dirty \in [Slots -> SUBSET Offsets]
        /\ ref_count \in [Slots -> Nat] /\ mapped \in [Slots -> Blocks \cup {NoBlock}]
        /\ vm \in [Blocks -> Slots \cup {NoSlot}]
    BY DEF Init
  <2>2. to_map \in Seq(Slots) /\ dirty_cache_blocks \in Seq(Slots)
    BY DEF Init
  <2>3. owner \in [Bytes -> {"mine", "offered", "theirs"}]
    BY DEF Init
  <2>. QED BY <2>1, <2>2, <2>3 DEF Init, TypeOK
<1>2. Keys
  BY DEF Init, Keys
<1>3. Rights
  <2>1. \A s \in Slots : Users(s) = {}
    BY DEF Init, Users
  <2>2. IsFiniteSet({}) /\ Cardinality({}) = 0
    BY FS_EmptySet
  <2>. QED BY <2>1, <2>2 DEF Init, Rights
<1>4. Calls
  BY DEF Init, Calls, Alone, Clean
<1>5. Maps
  BY CacheAssumption DEF Init, Maps, ToMap, Users
<1>6. Flights
  BY DEF Init, Flights, Flight, InFlight, OnWire
<1>. QED BY <1>1, <1>2, <1>3, <1>4, <1>5, <1>6 DEF SInv

(* Every step.                                                             *)
LEMMA NextSInv == SInv /\ [Next]_vars => SInv'
<1> SUFFICES ASSUME SInv, [Next]_vars PROVE SInv'
  OBVIOUS
<1>1. ASSUME NEW r \in Requests, checkout_fast(r) PROVE SInv'
  BY <1>1, CheckoutFastPlaced, PlacedSInv
<1>2. ASSUME NEW r \in Requests, CheckoutHit(r) PROVE SInv'
  BY <1>2, CheckoutHitPlaced, PlacedSInv
<1>3. ASSUME NEW r \in Requests, CheckoutMiss(r) PROVE SInv'
  BY <1>3, CheckoutMissPlaced, PlacedSInv
<1>4. ASSUME NEW r \in Requests, CheckoutFull(r) PROVE SInv'
  BY <1>4, CallersSInv
<1>5. ASSUME NEW blk \in Blocks, free_coll(blk) \/ set_readonly_coll(blk) PROVE SInv'
  BY <1>5, CallersSInv
<1>6. CASE vars' = vars
  <2>1. UNCHANGED <<cached, lru, valid, dirty, ref_count>> /\ UNCHANGED <<mapped, vm, to_map>>
    BY <1>6 DEF vars, slotVars, mapVars
  <2>2. /\ UNCHANGED <<writing, dirty_cache_blocks, has_dirty_cache>>
        /\ UNCHANGED <<fetching, completed, gets>>
        /\ UNCHANGED <<puts, wire, fresh, home>> /\ UNCHANGED <<pc, op, req>>
        /\ UNCHANGED <<readonly, tlb, owner, held>>
    BY <1>6 DEF vars, writeVars, fetchVars, dataVars, callVars
  <2>3. TypeOK'
    BY <2>1, <2>2 DEF SInv, TypeOK
  <2>4. Keys' /\ Rights' /\ Maps' /\ Flights' /\ Calls'
    BY <2>1, <2>2, KeysFrame, RightsFrame, MapsFrame, FlightsFrame, CallsFrame DEF SInv, callVars
  <2>. QED BY <2>3, <2>4 DEF SInv
<1>7. CASE Next
  <2>1. CASE \E r \in Requests : Checkouts(r)
    BY <1>1, <1>2, <1>3, <1>4, <2>1 DEF Checkouts
  <2>2. CASE \E h \in held : Write(h) \/ checkin(h)
    BY <2>2, WriteSInv, CheckinSInv
  <2>3. CASE release \/ acquire
    BY <2>3, CallersSInv
  <2>4. CASE \E got \in SUBSET Bytes : invalidate_all(got)
    BY <2>4, InvalidateAllSInv
  <2>5. CASE \E b \in Bytes : release_lazy(b) \/ OthersWrite(b) \/ discard_dirty(b)
    BY <2>5, ReleaseLazySInv, OthersWriteSInv, DiscardDirtySInv
  <2>6. CASE \E blk \in Blocks : free_coll(blk) \/ set_readonly_coll(blk) \/ unset_readonly_coll(blk)
    BY <1>5, <2>6, UnsetReadonlySInv
  <2>. QED BY <1>7, <2>1, <2>2, <2>3, <2>4, <2>5, <2>6, PutReadsSInv, PutLandsSInv, GetLandsSInv,
              DieSInv, CheckoutReturnSInv, UpdateMappingSInv, FetchCompleteSInv,
              WritebackCompleteSInv, EnsureEvictedSInv, SetReadonlySInv DEF Next
<1>. QED BY <1>6, <1>7

(* The structure of the cache is right at all times: blocks, checkouts,    *)
(* mappings and operations in flight.                                      *)
THEOREM StructureInvariant == Spec => []SInv
BY InitSInv, NextSInv, PTL DEF Spec

(* The variables of the cache have their types.                            *)
THEOREM TypeCorrect == Spec => []TypeOK
<1>1. SInv => TypeOK
  BY DEF SInv
<1>. QED BY <1>1, StructureInvariant, PTL

(* die() is called only when all blocks are checked out.                   *)
THEOREM DieOnlyIfExhaustedHolds == Spec => []DieOnlyIfExhausted
<1>1. SInv => DieOnlyIfExhausted
  BY DEF SInv, Calls, DieOnlyIfExhausted
<1>. QED BY <1>1, StructureInvariant, PTL

(* A byte is on the wire once, so there are as many as their places.       *)
LEMMA WireCounted ==
    ASSUME SInv, NEW sent, sent = {<<w[1], w[2]>> : w \in wire}
    PROVE  Cardinality(sent) = Cardinality(wire)
<1> USE DEF SInv
<1>1. \A w \in wire : /\ w = <<w[1], w[2], w[3]>> /\ w[1] \in Slots /\ w[2] \in Offsets
                      /\ w[3] \in BOOLEAN
  BY DEF TypeOK
<1>2. IsFiniteSet(sent)
  <2>1. IsFiniteSet(Slots) /\ IsFiniteSet(Offsets)
    BY FS_Interval, CacheAssumption DEF Slots, Offsets
  <2>2. IsFiniteSet(Slots \X Offsets)
    BY <2>1, FS_Product
  <2>3. sent \subseteq Slots \X Offsets
    BY <1>1
  <2>. QED BY <2>2, <2>3, FS_Subset
<1>3. PICK f : f = [w \in wire |-> <<w[1], w[2]>>]
  OBVIOUS
<1>4. f \in [wire -> sent]
  BY <1>3
<1>5. \A v, w \in wire : f[v] = f[w] => v = w
  <2> SUFFICES ASSUME NEW v \in wire, NEW w \in wire, f[v] = f[w] PROVE v = w
    OBVIOUS
  <2>1. v[1] = w[1] /\ v[2] = w[2]
    BY <1>3
  <2>2. PICK s \in Slots, o \in Offsets : s = v[1] /\ o = v[2]
    BY <1>1
  <2>3. ~(<<s, o, TRUE>> \in wire /\ <<s, o, FALSE>> \in wire)
    BY DEF Flights, Flight
  <2>4. v = <<s, o, v[3]>> /\ w = <<s, o, w[3]>> /\ v[3] \in BOOLEAN /\ w[3] \in BOOLEAN
    BY <1>1, <2>1, <2>2
  <2>5. v[3] = w[3]
    BY <2>3, <2>4
  <2>. QED BY <2>4, <2>5
<1>6. f \in Injection(wire, sent)
  BY <1>4, <1>5 DEF Injection, IsInjective
<1>7. f \in Surjection(wire, sent)
  BY <1>3, <1>4 DEF Surjection
<1>. QED BY <1>2, <1>6, <1>7, FS_Injection

(* Operations in flight never overlap.                                     *)
THEOREM RmaDisjointHolds == Spec => []RmaDisjoint
<1>1. ASSUME SInv PROVE RmaDisjoint
  <2> USE <1>1 DEF SInv
  <2>1. PICK sent : sent = {<<w[1], w[2]>> : w \in wire}
    OBVIOUS
  <2>2. sent \subseteq Slots \X Offsets
    BY <2>1 DEF TypeOK
  <2>3. ASSUME NEW s \in Slots, NEW o \in Offsets, <<s, o>> \in sent PROVE OnWire(s, o)
    <3>1. PICK w \in wire : w[1] = s /\ w[2] = o
      BY <2>1, <2>3
    <3>2. w = <<w[1], w[2], w[3]>> /\ w[3] \in BOOLEAN
      BY DEF TypeOK
    <3>. QED BY <3>1, <3>2 DEF OnWire
  <2>4. \A s \in Slots, o \in Offsets :
           /\ <<s, o>> \in puts => <<s, o>> \notin sent /\ InFlight(s, o)
           /\ <<s, o>> \in sent => InFlight(s, o)
    BY <2>3 DEF Flights, Flight, InFlight
  <2>5. puts \cap sent = {}
    BY <2>2, <2>4
  <2>6. \A p \in puts \cup sent : p[1] \in writing
    <3> SUFFICES ASSUME NEW p \in puts \cup sent PROVE p[1] \in writing
      OBVIOUS
    <3>1. p = <<p[1], p[2]>> /\ p[1] \in Slots /\ p[2] \in Offsets
      BY <2>2 DEF TypeOK
    <3>2. InFlight(p[1], p[2])
      BY <2>4, <3>1
    <3>. QED BY <3>1, <3>2 DEF Flights, Flight
  <2>7. Addr(gets) \cap Addr(puts \cup sent) = {}
    <3> SUFFICES ASSUME NEW b \in Addr(gets), b \in Addr(puts \cup sent) PROVE FALSE
      OBVIOUS
    <3>1. PICK F \in SUBSET (Slots \X Offsets) : F = puts \cup sent
      BY <2>2 DEF TypeOK
    <3>2. PICK G \in SUBSET (Slots \X Offsets) : G = gets
      BY DEF TypeOK
    <3>3. b[2] \in Offsets /\ \E s \in Slots : cached[s] = b[1] /\ <<s, b[2]>> \in G
      BY <3>2, AddrFacts
    <3>4. \E t \in Slots : cached[t] = b[1] /\ <<t, b[2]>> \in F
      BY <3>1, AddrFacts
    <3>5. PICK s \in Slots : cached[s] = b[1] /\ <<s, b[2]>> \in gets
      BY <3>2, <3>3
    <3>6. PICK t \in Slots : cached[t] = b[1] /\ <<t, b[2]>> \in puts \cup sent
      BY <3>1, <3>4
    <3>7. InFlight(t, b[2])
      BY <2>4, <3>3, <3>6
    <3>8. cached[t] # NoBlock
      <4>1. t \in writing
        BY <3>3, <3>7 DEF Flights, Flight
      <4>. QED BY <4>1 DEF Keys
    <3>9. s = t
      BY <3>5, <3>6, <3>8 DEF Keys
    <3>. QED BY <3>3, <3>5, <3>7, <3>9 DEF Flights, Flight
  <2>8. \A p \in gets : p[2] \notin dirty[p[1]]
    <3> SUFFICES ASSUME NEW p \in gets PROVE p[2] \notin dirty[p[1]]
      OBVIOUS
    <3>1. p = <<p[1], p[2]>> /\ p[1] \in Slots /\ p[2] \in Offsets
      BY DEF TypeOK
    <3>. QED BY <3>1 DEF Flights, Flight
  <2>9. Cardinality(sent) = Cardinality(wire)
    BY <2>1, WireCounted
  <2>. QED BY <2>1, <2>5, <2>6, <2>7, <2>8, <2>9 DEF RmaDisjoint
<1>. QED BY <1>1, StructureInvariant, PTL

--------------------------------------------------------------------------------
(***************************************************************************)
(* Data.                                                                   *)
(***************************************************************************)

(* Bytes that are going to be written.                                     *)
LEMMA UnwrittenFacts ==
    \A b : b \in Unwritten <=>
        \E h \in held : h.request.mode = "write" /\ ~h.written /\ b \in Part(h.request)
BY DEF Unwritten

(* Whatever is dirty, in flight or fetched is valid.                       *)
LEMMA SlotFacts ==
    ASSUME SInv, NEW s \in Slots, NEW o \in Offsets
    PROVE  /\ o \in valid[s] => cached[s] \in Blocks /\ <<cached[s], o>> \in Bytes
           /\ o \in dirty[s] => o \in valid[s] /\ <<s, o>> \notin gets
           /\ InFlight(s, o) => o \in valid[s] /\ s \in writing /\ <<s, o>> \notin gets
           /\ <<s, o>> \in gets => o \in valid[s]
           /\ <<s, o>> \in puts => InFlight(s, o)
           /\ <<s, o, TRUE>> \in wire => InFlight(s, o)
           /\ <<s, o, FALSE>> \in wire => InFlight(s, o)
<1> USE DEF SInv
<1>1. o \in valid[s] => cached[s] \in Blocks
  BY DEF Keys, TypeOK
<1>2. o \in valid[s] => <<cached[s], o>> \in Bytes
  BY <1>1 DEF Bytes
<1>3. Flight(s, o)
  BY DEF Flights
<1>4. /\ <<s, o>> \in puts => InFlight(s, o)
      /\ <<s, o, TRUE>> \in wire => InFlight(s, o)
      /\ <<s, o, FALSE>> \in wire => InFlight(s, o)
  BY DEF InFlight, OnWire
<1>. QED BY <1>1, <1>2, <1>3, <1>4 DEF Flight, Keys

(* A block has one slot.                                                   *)
LEMMA SameSlot ==
    ASSUME SInv, NEW s \in Slots, NEW t \in Slots, cached[s] = cached[t], cached[s] \in Blocks
    PROVE  s = t
BY CacheAssumption DEF SInv, Keys

(* What is checked out has its slot, and is the program's.                 *)
LEMMA HeldCopy ==
    ASSUME SInv, NEW h \in held, NEW b \in Part(h.request)
    PROVE  /\ b \in Bytes /\ b[1] \in Blocks /\ b[2] \in Offsets /\ b = <<b[1], b[2]>>
           /\ owner[b] = "mine" /\ (b \in readonly => h.request.mode = "read")
           /\ h.written => h.request.mode # "read"
           /\ \E s \in Slots : cached[s] = b[1] /\ b[2] \in valid[s]
<1> USE DEF SInv
<1>1. h.request \in Requests
  BY HeldFacts
<1>2. b = <<b[1], b[2]>> /\ b[1] = h.request.blk /\ b[2] \in h.request.reg
  BY PartFacts
<1>3. b[1] \in Blocks /\ b[2] \in Offsets
  BY <1>1, <1>2, RequestFacts
<1>4. b \in Bytes
  BY <1>2, <1>3 DEF Bytes
<1>5. PICK s \in Slots : cached[s] = h.request.blk /\ h.request.reg \subseteq valid[s]
  BY DEF Rights
<1>. QED BY <1>2, <1>3, <1>4, <1>5 DEF Rights, Mine

(* A byte that is somewhere, but not at home, is valid in its slot.        *)
LEMMA AwayIsValid ==
    ASSUME SInv, NEW b \in Bytes, Somewhere(b), b \notin home
    PROVE  \E s \in Slots : cached[s] = b[1] /\ b[2] \in valid[s]
<1>1. b[2] \in Offsets
  BY DEF Bytes
<1>2. ASSUME NEW h \in held, b \in Part(h.request)
      PROVE  \E s \in Slots : cached[s] = b[1] /\ b[2] \in valid[s]
  BY <1>2, HeldCopy
<1>3. CASE b \in Unwritten
  BY <1>2, <1>3, UnwrittenFacts
<1>4. ASSUME NEW s \in Slots, Saved(s, b)
      PROVE  \E t \in Slots : cached[t] = b[1] /\ b[2] \in valid[t]
  <2>1. CASE Kept(b)
    BY <1>2, <2>1 DEF Kept
  <2>2. CASE b[2] \in dirty[s] \/ <<s, b[2]>> \in puts \/ <<s, b[2], TRUE>> \in wire
    BY <1>1, <1>4, <2>2, SlotFacts DEF Saved
  <2>. QED BY <1>4, <2>1, <2>2 DEF Saved
<1>. QED BY <1>3, <1>4 DEF Somewhere

(* Everything is at home when nothing is dirty, in flight or checked out.  *)
LEMMA AllHome ==
    ASSUME SInv, DInv, held = {}, Clean, puts = {}, wire = {}
    PROVE  \A b \in Bytes : b \in home
<1>1. \A b : b \notin Unwritten /\ ~Kept(b)
  BY UnwrittenFacts DEF Kept
<1>2. \A b \in Bytes, s \in Slots : ~Saved(s, b)
  BY <1>1 DEF Saved, Clean
<1>. QED BY <1>1, <1>2 DEF DInv, Somewhere

(* The same for a byte that this rank has offered: its checkouts have      *)
(* ended.                                                                  *)
LEMMA OfferedHome ==
    ASSUME SInv, DInv, Clean, puts = {}, wire = {}, NEW b \in Bytes, owner[b] # "mine"
    PROVE  b \in home
<1>1. b \notin Unwritten
  BY UnwrittenFacts, HeldCopy
<1>2. ~Kept(b)
  BY HeldCopy DEF Kept
<1>3. \A s \in Slots : ~Saved(s, b)
  BY <1>2 DEF Saved, Clean
<1>. QED BY <1>1, <1>3 DEF DInv, Somewhere

(* Steps that leave the data alone.                                        *)
LEMMA DataFrame ==
    ASSUME DInv, UNCHANGED <<cached, valid, dirty, puts, gets, wire, fresh, home, owner,
                             readonly, held>>
    PROVE  DInv'
<1>1. Unwritten' = Unwritten
  BY DEF Unwritten
<1>2. \A b : Kept(b)' <=> Kept(b)
  BY DEF Kept
<1>3. ASSUME NEW s \in Slots, NEW o \in Offsets
      PROVE  ValidFresh(s, o)' /\ FetchesHome(s, o)' /\ WritesMine(s, o)' /\ StaleOnWire(s, o)'
  <2>1. ValidFresh(s, o) /\ FetchesHome(s, o) /\ WritesMine(s, o) /\ StaleOnWire(s, o)
    BY DEF DInv
  <2>2. InFlight(s, o)' <=> InFlight(s, o)
    BY DEF InFlight, OnWire
  <2>. QED BY <1>1, <1>2, <2>1, <2>2 DEF ValidFresh, FetchesHome, WritesMine, StaleOnWire, Shared
<1>4. ASSUME NEW b \in Bytes PROVE (Shared(b)' => b \in home') /\ Somewhere(b)'
  <2>1. (Shared(b) => b \in home) /\ Somewhere(b)
    BY DEF DInv
  <2>2. \A s \in Slots : Saved(s, b)' <=> Saved(s, b)
    BY <1>2 DEF Saved
  <2>. QED BY <1>1, <2>1, <2>2 DEF Shared, Somewhere
<1>. QED BY <1>3, <1>4 DEF DInv

(* A put that reads a value which is not the last one has been overtaken   *)
(* by a checkout for writing.                                              *)
LEMMA PutReadsDInv == ASSUME SInv, DInv, PutReads PROVE DInv'
<1>1. PICK p \in puts : /\ puts' = puts \ {p} /\ wire' = wire \cup {<<p[1], p[2], p \in fresh>>}
                        /\ UNCHANGED <<slotVars, mapVars, writeVars, fetchVars, fresh, home,
                                       callVars, readonly, tlb, owner, held>>
  BY DEF PutReads
<1>2. PICK a \in Slots, x \in Offsets : p = <<a, x>>
  BY DEF SInv, TypeOK
<1>3. /\ cached' = cached /\ valid' = valid /\ dirty' = dirty /\ gets' = gets /\ fresh' = fresh
      /\ home' = home /\ owner' = owner /\ readonly' = readonly /\ held' = held
  BY <1>1 DEF slotVars, fetchVars
<1>4. Unwritten' = Unwritten /\ \A b : Kept(b)' <=> Kept(b)
  BY <1>3 DEF Unwritten, Kept
<1>5. PICK v \in BOOLEAN : v = (p \in fresh)
  <2>1. (p \in fresh) \in BOOLEAN
    OBVIOUS
  <2>2. WITNESS (p \in fresh) \in BOOLEAN
  <2>. QED OBVIOUS
<1>6. wire' = wire \cup {<<a, x, v>>}
  BY <1>1, <1>2, <1>5, Zenon
<1>7. v <=> <<a, x>> \in fresh
  BY <1>2, <1>5
<1>8. ASSUME NEW s \in Slots, NEW o \in Offsets
      PROVE  /\ <<s, o>> \in puts' <=> <<s, o>> \in puts /\ ~(s = a /\ o = x)
             /\ <<s, o, TRUE>> \in wire' <=> <<s, o, TRUE>> \in wire \/ (s = a /\ o = x /\ v)
             /\ <<s, o, FALSE>> \in wire' <=> <<s, o, FALSE>> \in wire \/ (s = a /\ o = x /\ ~v)
  BY <1>1, <1>2, <1>6
<1>9. <<a, x>> \in puts /\ InFlight(a, x)
  BY <1>2 DEF InFlight
<1>10. ASSUME NEW s \in Slots, NEW o \in Offsets PROVE InFlight(s, o)' => InFlight(s, o)
  BY <1>8, <1>9 DEF InFlight, OnWire
<1>11. ~v => <<cached[a], x>> \in Unwritten
  <2>1. x \in valid[a] /\ <<a, x>> \notin gets
    BY <1>9, SlotFacts
  <2>2. ValidFresh(a, x) /\ WritesMine(a, x)
    BY DEF DInv
  <2>. QED BY <1>7, <1>9, <2>1, <2>2 DEF ValidFresh, WritesMine, Shared
<1>12. ASSUME NEW s \in Slots, NEW o \in Offsets
       PROVE  ValidFresh(s, o)' /\ FetchesHome(s, o)' /\ WritesMine(s, o)' /\ StaleOnWire(s, o)'
  <2>1. ValidFresh(s, o) /\ FetchesHome(s, o) /\ WritesMine(s, o) /\ StaleOnWire(s, o)
    BY DEF DInv
  <2>2. ValidFresh(s, o)' /\ FetchesHome(s, o)'
    BY <1>3, <1>4, <2>1 DEF ValidFresh, FetchesHome
  <2>3. WritesMine(s, o)'
    BY <1>3, <1>10, <2>1 DEF WritesMine, Shared
  <2>4. StaleOnWire(s, o)'
    BY <1>3, <1>4, <1>8, <1>11, <2>1 DEF StaleOnWire
  <2>. QED BY <2>2, <2>3, <2>4
<1>13. ASSUME NEW b \in Bytes PROVE (Shared(b)' => b \in home') /\ Somewhere(b)'
  <2>1. (Shared(b) => b \in home) /\ Somewhere(b) /\ b[2] \in Offsets
    BY DEF DInv, Bytes
  <2>2. ASSUME NEW s \in Slots, Saved(s, b) PROVE Saved(s, b)'
    BY <1>3, <1>4, <1>7, <1>8, <2>1, <2>2 DEF Saved
  <2>. QED BY <1>3, <1>4, <2>1, <2>2 DEF Shared, Somewhere
<1>. QED BY <1>12, <1>13 DEF DInv

(* A put of an old value makes home memory stale, for a while.             *)
LEMMA PutLandsDInv == ASSUME SInv, DInv, PutLands PROVE DInv'
<1>1. PICK w \in wire :
         /\ wire' = wire \ {w}
         /\ home' = IF w[3] THEN home \cup {<<cached[w[1]], w[2]>>}
                            ELSE home \ {<<cached[w[1]], w[2]>>}
         /\ UNCHANGED <<slotVars, mapVars, writeVars, fetchVars, puts, fresh, callVars,
                        readonly, tlb, owner, held>>
  BY DEF PutLands
<1>2. PICK a \in Slots, x \in Offsets, v \in BOOLEAN : w = <<a, x, v>>
  BY DEF SInv, TypeOK
<1>3. /\ cached' = cached /\ valid' = valid /\ dirty' = dirty /\ gets' = gets /\ fresh' = fresh
      /\ puts' = puts /\ owner' = owner /\ readonly' = readonly /\ held' = held
  BY <1>1 DEF slotVars, fetchVars
<1>4. Unwritten' = Unwritten /\ \A b : Kept(b)' <=> Kept(b)
  BY <1>3 DEF Unwritten, Kept
<1>5. home' = IF v THEN home \cup {<<cached[a], x>>} ELSE home \ {<<cached[a], x>>}
  BY <1>1, <1>2
<1>6. ASSUME NEW s \in Slots, NEW o \in Offsets
      PROVE  /\ <<s, o, TRUE>> \in wire' <=> <<s, o, TRUE>> \in wire /\ ~(s = a /\ o = x /\ v)
             /\ <<s, o, FALSE>> \in wire' => <<s, o, FALSE>> \in wire
  BY <1>1, <1>2
<1>7. /\ InFlight(a, x) /\ x \in valid[a] /\ cached[a] \in Blocks /\ <<a, x>> \notin gets
      /\ <<cached[a], x>> \in Bytes
      /\ ~v => <<a, x, FALSE>> \in wire
  <2>1. InFlight(a, x)
    BY <1>2 DEF InFlight, OnWire
  <2>. QED BY <1>2, <2>1, SlotFacts
<1>8. ~Shared(<<cached[a], x>>)
  BY <1>7 DEF DInv, WritesMine
<1>9. ASSUME NEW s \in Slots, NEW o \in Offsets
      PROVE  ValidFresh(s, o)' /\ FetchesHome(s, o)' /\ WritesMine(s, o)' /\ StaleOnWire(s, o)'
  <2>1. ValidFresh(s, o) /\ FetchesHome(s, o) /\ WritesMine(s, o) /\ StaleOnWire(s, o)
    BY DEF DInv
  <2>2. ValidFresh(s, o)'
    BY <1>3, <1>4, <2>1 DEF ValidFresh
  <2>3. FetchesHome(s, o)'
    <3> SUFFICES ASSUME <<s, o>> \in gets PROVE <<cached[s], o>> \in home'
      BY <1>3 DEF FetchesHome
    <3>1. <<cached[s], o>> \in home
      BY <2>1 DEF FetchesHome
    <3>2. ~(cached[s] = cached[a] /\ o = x)
      BY <1>7, SameSlot
    <3>. QED BY <1>5, <3>1, <3>2
  <2>4. InFlight(s, o)' => InFlight(s, o)
    BY <1>3, <1>6 DEF InFlight, OnWire
  <2>5. WritesMine(s, o)'
    BY <1>3, <2>1, <2>4 DEF WritesMine, Shared
  <2>6. StaleOnWire(s, o)'
    BY <1>3, <1>4, <1>6, <2>1 DEF StaleOnWire
  <2>. QED BY <2>2, <2>3, <2>5, <2>6
<1>10. ASSUME NEW b \in Bytes PROVE (Shared(b)' => b \in home') /\ Somewhere(b)'
  <2>1. /\ (Shared(b) => b \in home) /\ Somewhere(b)
        /\ b = <<b[1], b[2]>> /\ b[2] \in Offsets
    BY DEF DInv, Bytes
  <2>2. CASE b = <<cached[a], x>>
    <3>1. CASE v
      BY <1>5, <2>2, <3>1 DEF Somewhere
    <3>2. CASE ~v
      <4>1. StaleOnWire(a, x)
        BY DEF DInv
      <4>2. b \in Unwritten \/ (<<a, x>> \in fresh /\ (x \in dirty[a] \/ Kept(b)))
        BY <1>7, <2>2, <3>2, <4>1 DEF StaleOnWire
      <4>3. b[1] = cached[a] /\ b[2] = x
        BY <2>2
      <4>4. b \in Unwritten \/ Saved(a, b)'
        BY <1>3, <1>4, <4>2, <4>3 DEF Saved
      <4>5. ~Shared(b)'
        BY <1>3, <1>8, <2>2 DEF Shared
      <4>. QED BY <1>4, <4>4, <4>5 DEF Somewhere
    <3>. QED BY <3>1, <3>2
  <2>3. CASE b # <<cached[a], x>>
    <3>1. b \in home' <=> b \in home
      BY <1>5, <2>3
    <3>2. ASSUME NEW s \in Slots, Saved(s, b) PROVE Saved(s, b)'
      <4>1. ~(s = a /\ b[2] = x)
        BY <2>1, <2>3, <3>2 DEF Saved
      <4>. QED BY <1>3, <1>4, <1>6, <2>1, <3>2, <4>1 DEF Saved
    <3>. QED BY <1>3, <1>4, <2>1, <3>1, <3>2 DEF Shared, Somewhere
  <2>. QED BY <2>2, <2>3
<1>. QED BY <1>9, <1>10 DEF DInv

(* A fetched byte is fresh.                                                *)
LEMMA GetLandsDInv == ASSUME SInv, DInv, GetLands PROVE DInv'
<1>1. PICK p \in gets :
         /\ gets' = gets \ {p}
         /\ fresh' = IF <<cached[p[1]], p[2]>> \in home THEN fresh \cup {p} ELSE fresh \ {p}
         /\ UNCHANGED <<slotVars, mapVars, writeVars, fetching, completed, puts, wire, home,
                        callVars, readonly, tlb, owner, held>>
  BY DEF GetLands
<1>2. PICK a \in Slots, x \in Offsets : p = <<a, x>>
  BY DEF SInv, TypeOK
<1>3. /\ cached' = cached /\ valid' = valid /\ dirty' = dirty /\ puts' = puts /\ wire' = wire
      /\ home' = home /\ owner' = owner /\ readonly' = readonly /\ held' = held
  BY <1>1 DEF slotVars
<1>4. Unwritten' = Unwritten /\ \A b : Kept(b)' <=> Kept(b)
  BY <1>3 DEF Unwritten, Kept
<1>5. <<cached[a], x>> \in home
  BY <1>1, <1>2 DEF DInv, FetchesHome
<1>6. fresh' = fresh \cup {<<a, x>>} /\ gets' = gets \ {<<a, x>>}
  BY <1>1, <1>2, <1>5
<1>7. ASSUME NEW s \in Slots, NEW o \in Offsets
      PROVE  ValidFresh(s, o)' /\ FetchesHome(s, o)' /\ WritesMine(s, o)' /\ StaleOnWire(s, o)'
  <2>1. ValidFresh(s, o) /\ FetchesHome(s, o) /\ WritesMine(s, o) /\ StaleOnWire(s, o)
    BY DEF DInv
  <2>2. ValidFresh(s, o)' /\ FetchesHome(s, o)'
    BY <1>3, <1>4, <1>6, <2>1 DEF ValidFresh, FetchesHome
  <2>3. InFlight(s, o)' <=> InFlight(s, o)
    BY <1>3 DEF InFlight, OnWire
  <2>4. WritesMine(s, o)' /\ StaleOnWire(s, o)'
    BY <1>3, <1>4, <1>6, <2>1, <2>3 DEF WritesMine, StaleOnWire, Shared
  <2>. QED BY <2>2, <2>4
<1>8. ASSUME NEW b \in Bytes PROVE (Shared(b)' => b \in home') /\ Somewhere(b)'
  <2>1. (Shared(b) => b \in home) /\ Somewhere(b)
    BY DEF DInv
  <2>2. ASSUME NEW s \in Slots, Saved(s, b) PROVE Saved(s, b)'
    BY <1>3, <1>4, <1>6, <2>2 DEF Saved
  <2>. QED BY <1>3, <1>4, <2>1, <2>2 DEF Shared, Somewhere
<1>. QED BY <1>7, <1>8 DEF DInv

(* Another rank writes what this rank neither uses nor writes back.        *)
LEMMA OthersWriteDInv == ASSUME SInv, DInv, NEW c \in Bytes, OthersWrite(c) PROVE DInv'
<1>1. /\ owner[c] = "theirs" /\ c \notin readonly
      /\ home' = home \cup {c} /\ fresh' = Without({c}) /\ wire' = Outdated({c})
      /\ UNCHANGED <<slotVars, mapVars, writeVars, fetchVars, puts, callVars,
                     readonly, tlb, owner, held>>
  BY DEF OthersWrite
<1>2. /\ cached' = cached /\ valid' = valid /\ dirty' = dirty /\ gets' = gets /\ puts' = puts
      /\ owner' = owner /\ readonly' = readonly /\ held' = held
  BY <1>1 DEF slotVars, fetchVars
<1>3. Unwritten' = Unwritten /\ \A b : Kept(b)' <=> Kept(b)
  BY <1>2 DEF Unwritten, Kept
<1>4. ASSUME NEW s \in Slots, NEW o \in Offsets
      PROVE  <<s, o>> \in fresh' <=> <<s, o>> \in fresh /\ <<cached[s], o>> # c
  BY <1>1 DEF Without
<1>5. ASSUME NEW s \in Slots, NEW o \in Offsets
      PROVE  /\ <<s, o, TRUE>> \in wire' <=> <<s, o, TRUE>> \in wire /\ <<cached[s], o>> # c
             /\ <<s, o, FALSE>> \in wire' =>
                   <<s, o, FALSE>> \in wire \/ (<<s, o, TRUE>> \in wire /\ <<cached[s], o>> = c)
  BY <1>1, OutdatedFacts DEF SInv
<1>6. ASSUME NEW s \in Slots, NEW o \in Offsets, InFlight(s, o) PROVE <<cached[s], o>> # c
  BY <1>1, <1>6 DEF DInv, WritesMine, Shared
<1>7. ASSUME NEW s \in Slots, NEW o \in Offsets
      PROVE  ValidFresh(s, o)' /\ FetchesHome(s, o)' /\ WritesMine(s, o)' /\ StaleOnWire(s, o)'
  <2>1. ValidFresh(s, o) /\ FetchesHome(s, o) /\ WritesMine(s, o) /\ StaleOnWire(s, o)
    BY DEF DInv
  <2>2. ValidFresh(s, o)' /\ FetchesHome(s, o)'
    BY <1>1, <1>2, <1>3, <1>4, <2>1 DEF ValidFresh, FetchesHome
  <2>3. InFlight(s, o)' => InFlight(s, o)
    BY <1>2, <1>5 DEF InFlight, OnWire
  <2>4. WritesMine(s, o)'
    BY <1>2, <2>1, <2>3 DEF WritesMine, Shared
  <2>5. <<s, o, FALSE>> \in wire' => <<s, o, FALSE>> \in wire /\ <<cached[s], o>> # c
    BY <1>5, <1>6, SlotFacts
  <2>6. StaleOnWire(s, o)'
    BY <1>2, <1>3, <1>4, <2>1, <2>5 DEF StaleOnWire
  <2>. QED BY <2>2, <2>4, <2>6
<1>8. ASSUME NEW b \in Bytes PROVE (Shared(b)' => b \in home') /\ Somewhere(b)'
  <2>1. /\ (Shared(b) => b \in home) /\ Somewhere(b)
        /\ b = <<b[1], b[2]>> /\ b[2] \in Offsets
    BY DEF DInv, Bytes
  <2>2. ASSUME NEW s \in Slots, Saved(s, b), b # c PROVE Saved(s, b)'
    <3>1. <<cached[s], b[2]>> # c
      BY <2>1, <2>2 DEF Saved
    <3>. QED BY <1>2, <1>3, <1>4, <1>5, <2>1, <2>2, <3>1 DEF Saved
  <2>. QED BY <1>1, <1>2, <1>3, <2>1, <2>2 DEF Shared, Somewhere
<1>. QED BY <1>7, <1>8 DEF DInv

(* The program writes where its block is mapped, and nowhere else is there *)
(* a copy that stays fresh.                                                *)
LEMMA WriteDInv == ASSUME SInv, DInv, NEW h \in held, Write(h) PROVE DInv'
<1>1. PICK s : s = vm[h.request.blk]
  OBVIOUS
<1>2. PICK g : g = [h EXCEPT !.written = TRUE]
  OBVIOUS
<1>3. PICK P : P = Part(h.request)
  OBVIOUS
<1>4. /\ pc = "run" /\ h.request.mode # "read" /\ s # NoSlot
      /\ fresh' = Without(P) \cup ({s} \X h.request.reg)
      /\ wire' = Outdated(P) /\ home' = home \ P
      /\ held' = (held \ {h}) \cup {g}
      /\ UNCHANGED <<slotVars, mapVars, writeVars, fetchVars, puts, callVars,
                     readonly, tlb, owner>>
  BY <1>1, <1>2, <1>3 DEF Write
<1>5. /\ h.request \in Requests /\ g.request = h.request /\ g.written = TRUE
  <2>1. h \in [request : Requests, written : BOOLEAN]
    BY DEF SInv, TypeOK
  <2>2. g = [request |-> h.request, written |-> TRUE]
    BY <1>2, <2>1
  <2>. QED BY <2>1, <2>2
<1>6. h.request.blk \in Blocks /\ h.request.reg \subseteq Offsets
  BY <1>5, RequestFacts
<1>7. gets = {} /\ to_map = <<>>
  BY <1>4 DEF SInv, Calls
<1>8. s \in Slots /\ cached[s] = h.request.blk
  <2>1. s \in Slots
    BY <1>1, <1>4, <1>6 DEF SInv, TypeOK
  <2>2. mapped[s] = h.request.blk
    BY <1>1, <1>6, <2>1 DEF SInv, Maps
  <2>. QED BY <1>7, <2>1, <2>2 DEF SInv, Maps, ToMap
<1>9. /\ cached' = cached /\ valid' = valid /\ dirty' = dirty /\ gets' = {} /\ puts' = puts
      /\ owner' = owner /\ readonly' = readonly
  BY <1>4, <1>7 DEF slotVars, fetchVars
<1>10. \A b \in P : ~Shared(b)
  BY <1>3, <1>4, HeldCopy DEF Shared
<1>11. ASSUME NEW t \in Slots, NEW o \in Offsets
       PROVE  <<cached[t], o>> \in P <=> t = s /\ o \in h.request.reg
  <2>1. <<cached[t], o>> \in P <=> cached[t] = h.request.blk /\ o \in h.request.reg
    BY <1>3, PartFacts
  <2>2. cached[t] = h.request.blk <=> t = s
    BY <1>6, <1>8, SameSlot
  <2>. QED BY <2>1, <2>2
<1>12. ASSUME NEW b PROVE (Kept(b) \/ b \in P) => Kept(b)'
  <2>1. CASE b \in P
    BY <1>3, <1>4, <1>5, <2>1 DEF Kept
  <2>2. CASE Kept(b) /\ b \notin P
    <3>1. PICK k \in held : k.written /\ b \in Part(k.request)
      BY <2>2 DEF Kept
    <3>2. k # h
      BY <1>3, <2>2, <3>1
    <3>. QED BY <1>4, <3>1, <3>2 DEF Kept
  <2>. QED BY <2>1, <2>2
<1>13. ASSUME NEW b, b \in Unwritten, b \notin P PROVE b \in Unwritten'
  <2>1. PICK k \in held : k.request.mode = "write" /\ ~k.written /\ b \in Part(k.request)
    BY <1>13, UnwrittenFacts
  <2>2. k # h
    BY <1>3, <1>13, <2>1
  <2>3. k \in held'
    BY <1>4, <2>2
  <2>. QED BY <2>1, <2>3 DEF Unwritten
<1>14. ASSUME NEW t \in Slots, NEW o \in Offsets
       PROVE  <<t, o>> \in fresh' <=> <<cached[t], o>> \in P \/ <<t, o>> \in fresh
  <2>1. <<t, o>> \in Without(P) <=> <<t, o>> \in fresh /\ <<cached[t], o>> \notin P
    BY DEF Without
  <2>2. <<t, o>> \in fresh' <=> <<t, o>> \in Without(P) \/ (t = s /\ o \in h.request.reg)
    BY <1>4
  <2>. QED BY <1>11, <2>1, <2>2
<1>15. ASSUME NEW t \in Slots, NEW o \in Offsets
       PROVE  /\ <<t, o, TRUE>> \in wire' <=> <<t, o, TRUE>> \in wire /\ <<cached[t], o>> \notin P
              /\ <<t, o, FALSE>> \in wire' =>
                    <<t, o, FALSE>> \in wire \/ (<<t, o, TRUE>> \in wire /\ <<cached[t], o>> \in P)
  BY <1>4, OutdatedFacts DEF SInv
<1>16. ASSUME NEW t \in Slots, NEW o \in Offsets
       PROVE  ValidFresh(t, o)' /\ FetchesHome(t, o)' /\ WritesMine(t, o)' /\ StaleOnWire(t, o)'
  <2>1. ValidFresh(t, o) /\ FetchesHome(t, o) /\ WritesMine(t, o) /\ StaleOnWire(t, o)
    BY DEF DInv
  <2>2. ValidFresh(t, o)'
    BY <1>7, <1>9, <1>13, <1>14, <2>1 DEF ValidFresh
  <2>3. FetchesHome(t, o)'
    BY <1>9 DEF FetchesHome
  <2>4. InFlight(t, o)' => InFlight(t, o)
    BY <1>9, <1>15 DEF InFlight, OnWire
  <2>5. WritesMine(t, o)'
    BY <1>9, <2>1, <2>4 DEF WritesMine, Shared
  <2>6. StaleOnWire(t, o)'
    BY <1>9, <1>12, <1>13, <1>14, <1>15, <2>1 DEF StaleOnWire
  <2>. QED BY <2>2, <2>3, <2>5, <2>6
<1>17. ASSUME NEW b \in Bytes PROVE (Shared(b)' => b \in home') /\ Somewhere(b)'
  <2>1. /\ (Shared(b) => b \in home) /\ Somewhere(b)
        /\ b = <<b[1], b[2]>> /\ b[2] \in Offsets
    BY DEF DInv, Bytes
  <2>2. Shared(b)' <=> Shared(b)
    BY <1>9 DEF Shared
  <2>3. CASE b \in P
    <3>1. b[1] = cached[s] /\ b[2] \in h.request.reg
      BY <1>3, <1>8, <2>3, PartFacts
    <3>2. <<s, b[2]>> \in fresh'
      BY <1>8, <1>11, <1>14, <2>1, <3>1
    <3>3. Saved(s, b)'
      BY <1>9, <1>12, <2>3, <3>1, <3>2 DEF Saved
    <3>. QED BY <1>8, <1>10, <2>2, <2>3, <3>3 DEF Somewhere
  <2>4. CASE b \notin P
    <3>1. ASSUME NEW t \in Slots, Saved(t, b) PROVE Saved(t, b)'
      <4>1. <<cached[t], b[2]>> = b
        BY <2>1, <3>1 DEF Saved
      <4>. QED BY <1>9, <1>12, <1>14, <1>15, <2>1, <2>4, <3>1, <4>1 DEF Saved
    <3>. QED BY <1>4, <1>13, <2>1, <2>2, <2>4, <3>1 DEF Somewhere
  <2>. QED BY <2>3, <2>4
<1>. QED BY <1>16, <1>17 DEF DInv

(* What a checkout does to the fresh copies: those of an evicted block go. *)
FreshPlaced(s, r) ==
    \A t \in Slots, o \in Offsets :
        <<t, o>> \in fresh' <=> <<t, o>> \in fresh /\ (t # s \/ cached[s] = r.blk)

(* A checkout fetches what is at home and not in its slot.                 *)
LEMMA PlacedDInv ==
    ASSUME SInv, DInv, NEW s \in Slots, NEW r \in Requests, NEW v, Placed(s, r, v),
           FreshPlaced(s, r)
    PROVE  DInv'
<1>1. /\ cached'[s] = r.blk /\ r.blk \in Blocks
      /\ \A t \in Slots : t # s => /\ cached'[t] = cached[t] /\ valid'[t] = valid[t]
                                   /\ cached[t] # r.blk
  BY PlacedFacts
<1>2. /\ cached[s] # r.blk => Vacant(s) /\ v = {}
      /\ cached[s] = r.blk => valid[s] = v
      /\ r.reg # {}
  BY RequestFacts DEF Placed
<1>3. /\ dirty' = dirty /\ puts' = puts /\ wire' = wire /\ home' = home /\ readonly' = readonly
      /\ owner' = owner /\ held' = held \cup {[request |-> r, written |-> FALSE]}
  BY PlacedFacts
<1>4. ASSUME NEW b PROVE Kept(b)' <=> Kept(b)
  BY <1>3 DEF Kept
<1>5. ASSUME NEW b
      PROVE  /\ b \in Unwritten => b \in Unwritten'
             /\ r.mode = "write" /\ b \in Part(r) => b \in Unwritten'
  <2>1. b \in Unwritten' <=>
           \E h \in held' : h.request.mode = "write" /\ ~h.written /\ b \in Part(h.request)
    BY DEF Unwritten
  <2>2. b \in Unwritten => b \in Unwritten'
    BY <1>3, <2>1, UnwrittenFacts
  <2>3. PICK h \in held' : h = [request |-> r, written |-> FALSE]
    BY <1>3
  <2>4. h.request = r /\ h.written = FALSE
    BY <2>3
  <2>. QED BY <2>1, <2>2, <2>4
<1>6. \A t \in Slots, o \in Offsets : <<t, o>> \in gets' <=>
         <<t, o>> \in gets \/ (t = s /\ Begins(r, v) /\ o \in Pad(r.reg) /\ o \notin v)
  BY PlacedFacts
<1>7. valid'[s] = v \cup (IF Begins(r, v) THEN Pad(r.reg) ELSE r.reg)
  BY DEF Placed, TakeOut, SInv, TypeOK
<1>8. cached[s] # r.blk =>
         /\ dirty[s] = {}
         /\ \A o \in Offsets : ~InFlight(s, o) /\ <<s, o>> \notin gets
  <2> SUFFICES ASSUME cached[s] # r.blk
               PROVE  /\ dirty[s] = {}
                      /\ \A o \in Offsets : ~InFlight(s, o) /\ <<s, o>> \notin gets
    OBVIOUS
  <2>1. Vacant(s)
    BY <1>2
  <2>2. \A o \in Offsets : ~InFlight(s, o)
    BY <2>1, SlotFacts DEF Vacant
  <2>3. \A o \in Offsets : <<s, o>> \notin gets
    BY <2>1 DEF Vacant, SInv, Maps
  <2>. QED BY <2>1, <2>2, <2>3 DEF Vacant
<1>9. ASSUME NEW o \in Offsets, o \notin v PROVE <<r.blk, o>> \in home
  <2> SUFFICES ASSUME <<r.blk, o>> \notin home PROVE FALSE
    OBVIOUS
  <2>1. PICK b \in Bytes : b = <<r.blk, o>>
    BY <1>1 DEF Bytes
  <2>2. PICK t \in Slots : cached[t] = b[1] /\ b[2] \in valid[t]
    BY <2>1, AwayIsValid DEF DInv
  <2>3. t = s /\ cached[s] = r.blk
    BY <1>1, <2>1, <2>2
  <2>. QED BY <1>2, <1>9, <2>1, <2>2, <2>3
<1>10. ASSUME NEW t \in Slots, NEW o \in Offsets, t # s \/ cached[s] = r.blk
       PROVE  cached'[t] = cached[t] /\ (<<t, o>> \in fresh => <<t, o>> \in fresh')
  BY <1>1, <1>10 DEF FreshPlaced
<1>11. ASSUME NEW t \in Slots, NEW o \in Offsets
       PROVE  ValidFresh(t, o)' /\ FetchesHome(t, o)' /\ WritesMine(t, o)' /\ StaleOnWire(t, o)'
  <2>1. ValidFresh(t, o) /\ FetchesHome(t, o) /\ WritesMine(t, o) /\ StaleOnWire(t, o)
    BY DEF DInv
  <2>2. InFlight(t, o)' <=> InFlight(t, o)
    BY <1>3 DEF InFlight, OnWire
  <2>3. ValidFresh(t, o)'
    <3>1. CASE o \in valid[t] /\ (t # s \/ cached[s] = r.blk)
      BY <1>3, <1>5, <1>6, <1>10, <2>1, <3>1 DEF ValidFresh
    <3>2. CASE o \in valid'[s] /\ t = s /\ o \notin v
      <4>1. CASE Begins(r, v)
        BY <1>6, <1>7, <3>2, <4>1 DEF ValidFresh
      <4>2. CASE ~Begins(r, v)
        <5>1. o \in r.reg /\ r.mode = "write"
          BY <1>7, <3>2, <4>2 DEF Begins
        <5>2. <<cached'[s], o>> \in Part(r)
          BY <1>1, <5>1, PartFacts
        <5>3. <<cached'[s], o>> \in Unwritten'
          BY <1>5, <5>1, <5>2
        <5>. QED BY <3>2, <5>3 DEF ValidFresh
      <4>. QED BY <4>1, <4>2
    <3>3. CASE o \notin valid'[t]
      BY <3>3 DEF ValidFresh
    <3>. QED BY <1>1, <1>2, <3>1, <3>2, <3>3
  <2>4. FetchesHome(t, o)'
    <3> SUFFICES ASSUME <<t, o>> \in gets' PROVE <<cached'[t], o>> \in home
      BY <1>3 DEF FetchesHome
    <3>1. CASE <<t, o>> \in gets
      <4>1. t # s \/ cached[s] = r.blk
        BY <1>8, <3>1
      <4>. QED BY <1>10, <2>1, <3>1, <4>1 DEF FetchesHome
    <3>2. CASE t = s /\ o \notin v
      BY <1>1, <1>9, <3>2
    <3>. QED BY <1>6, <3>1, <3>2
  <2>5. WritesMine(t, o)'
    <3>1. CASE t # s \/ cached[s] = r.blk
      BY <1>3, <1>10, <2>1, <2>2, <3>1 DEF WritesMine, Shared
    <3>2. CASE t = s /\ cached[s] # r.blk
      BY <1>3, <1>8, <2>2, <3>2 DEF WritesMine
    <3>. QED BY <3>1, <3>2
  <2>6. StaleOnWire(t, o)'
    <3>1. CASE t # s \/ cached[s] = r.blk
      BY <1>3, <1>4, <1>5, <1>10, <2>1, <3>1 DEF StaleOnWire
    <3>2. CASE t = s /\ cached[s] # r.blk
      <4>1. <<t, o, FALSE>> \notin wire
        BY <1>8, <3>2, SlotFacts
      <4>. QED BY <1>3, <4>1 DEF StaleOnWire
    <3>. QED BY <3>1, <3>2
  <2>. QED BY <2>3, <2>4, <2>5, <2>6
<1>12. ASSUME NEW b \in Bytes PROVE (Shared(b)' => b \in home') /\ Somewhere(b)'
  <2>1. (Shared(b) => b \in home) /\ Somewhere(b) /\ b[2] \in Offsets
    BY DEF DInv, Bytes
  <2>2. ASSUME NEW t \in Slots, Saved(t, b) PROVE Saved(t, b)'
    <3>1. t # s \/ cached[s] = r.blk
      <4> SUFFICES ASSUME t = s, cached[s] # r.blk PROVE FALSE
        OBVIOUS
      <4>1. Kept(b) /\ cached[s] = b[1]
        BY <1>8, <2>1, <2>2, SlotFacts DEF Saved
      <4>2. PICK h \in held : b \in Part(h.request)
        BY <4>1 DEF Kept
      <4>3. h \in Users(s)
        BY <4>1, <4>2, PartFacts DEF Users
      <4>. QED BY <1>2, <4>3 DEF Vacant
    <3>2. cached'[t] = cached[t] /\ (<<t, b[2]>> \in fresh => <<t, b[2]>> \in fresh')
      BY <1>10, <2>1, <3>1
    <3>. QED BY <1>3, <1>4, <2>2, <3>2 DEF Saved
  <2>. QED BY <1>3, <1>5, <2>1, <2>2 DEF Shared, Somewhere
<1>. QED BY <1>11, <1>12 DEF DInv

(***************************************************************************)
(* The data before a write-back of the dirty bytes d, with the checkouts   *)
(* that are left after the step.                                           *)
(***************************************************************************)
StillKept(b) == \E h \in held' : h.written /\ b \in Part(h.request)

ReadySlot(d, s, o) ==
    LET b == <<cached[s], o>> IN
    /\ o \in valid[s] /\ (owner[b] # "theirs" \/ b \in readonly) =>
          <<s, o>> \in fresh \/ <<s, o>> \in gets \/ b \in Unwritten'
    /\ <<s, o>> \in gets => b \in home
    /\ o \in d[s] \/ InFlight(s, o) => ~Shared(b)
    /\ <<s, o, FALSE>> \in wire =>
          b \in Unwritten' \/ (<<s, o>> \in fresh /\ (o \in d[s] \/ StillKept(b)))

ReadyCopy(d, s, b) ==
    /\ cached[s] = b[1] /\ <<s, b[2]>> \in fresh
    /\ \/ b[2] \in d[s] \/ <<s, b[2]>> \in puts \/ <<s, b[2], TRUE>> \in wire
       \/ StillKept(b)

ReadyByte(d, b) ==
    /\ Shared(b) => b \in home
    /\ b \in home \/ b \in Unwritten' \/ \E s \in Slots : ReadyCopy(d, s, b)

Ready(d) ==
    /\ \A s \in Slots, o \in Offsets : ReadySlot(d, s, o)
    /\ \A b \in Bytes : ReadyByte(d, b)

(* writeback_begin() puts what is fresh, or has put it home.               *)
LEMMA WritebackDInv ==
    ASSUME SInv, NEW d, NEW list, Listed(d, list), Backed(d), writeback_begin(d, list), Ready(d),
           UNCHANGED <<cached, valid, wire, fresh, gets, owner, readonly>>
    PROVE  DInv'
<1>1. DistinctKeys
  BY DEF SInv, Keys, DistinctKeys
<1>2. FlightsKnown
  BY DEF SInv, Flights, Flight, FlightsKnown
<1>3. /\ dirty' = [s \in Slots |-> {}]
      /\ \A s \in Slots, o \in Offsets :
            /\ <<s, o>> \in puts' => <<s, o>> \in puts \/ (o \in d[s] /\ ~OnWire(s, o))
            /\ OnWire(s, o) => d[s] = {}
            /\ <<s, o>> \in puts => <<s, o>> \in puts'
            /\ o \in d[s] => \/ <<s, o>> \in puts'
                             \/ <<cached[s], o>> \in home' <=> <<s, o>> \in fresh
      /\ \A b : ~(b \in home' <=> b \in home) =>
            \E s \in Slots : /\ b[2] \in d[s] /\ b = <<cached[s], b[2]>>
                             /\ b \in home' <=> <<s, b[2]>> \in fresh
  BY <1>1, <1>2, WritebackBegins DEF SInv
<1>4. ASSUME NEW s \in Slots, NEW o \in Offsets
      PROVE  /\ o \in d[s] => o \in valid[s] /\ <<s, o>> \notin gets /\ cached[s] \in Blocks
             /\ dirty'[s] = {}
  BY <1>3, SlotFacts DEF Backed
<1>5. ASSUME NEW b \in Bytes, b \notin home', b \notin Unwritten' PROVE b \notin home
  <2> SUFFICES ASSUME b \in home PROVE FALSE
    OBVIOUS
  <2>1. PICK s \in Slots : /\ b[2] \in d[s] /\ b = <<cached[s], b[2]>>
                           /\ b \in home' <=> <<s, b[2]>> \in fresh
    BY <1>3, <1>5
  <2>2. b[2] \in Offsets
    BY DEF Bytes
  <2>3. ReadySlot(d, s, b[2])
    BY <2>2 DEF Ready
  <2>4. b[2] \in valid[s] /\ <<s, b[2]>> \notin gets
    BY <1>4, <2>1, <2>2
  <2>. QED BY <1>5, <2>1, <2>3, <2>4 DEF ReadySlot, Shared
<1>6. ASSUME NEW b \in Bytes, b \in home, b \notin home' PROVE ~Shared(b)
  <2>1. PICK s \in Slots : b[2] \in d[s] /\ b = <<cached[s], b[2]>>
    BY <1>3, <1>6
  <2>2. b[2] \in Offsets
    BY DEF Bytes
  <2>3. ReadySlot(d, s, b[2])
    BY <2>2 DEF Ready
  <2>. QED BY <2>1, <2>3 DEF ReadySlot
<1>7. ASSUME NEW s \in Slots, NEW o \in Offsets
      PROVE  ValidFresh(s, o)' /\ FetchesHome(s, o)' /\ WritesMine(s, o)' /\ StaleOnWire(s, o)'
  <2>1. ReadySlot(d, s, o)
    BY DEF Ready
  <2>2. ValidFresh(s, o)'
    BY <2>1 DEF ReadySlot, ValidFresh
  <2>3. FetchesHome(s, o)'
    <3> SUFFICES ASSUME <<s, o>> \in gets, <<cached[s], o>> \notin home' PROVE FALSE
      BY DEF FetchesHome
    <3>1. <<cached[s], o>> \in home
      BY <2>1 DEF ReadySlot
    <3>2. PICK b : b = <<cached[s], o>>
      OBVIOUS
    <3>3. PICK t \in Slots : b[2] \in d[t] /\ b = <<cached[t], b[2]>>
      BY <1>3, <3>1, <3>2
    <3>4. o \in d[t] /\ cached[t] = cached[s]
      BY <3>2, <3>3
    <3>5. t = s
      BY <1>4, <3>4, SameSlot
    <3>. QED BY <1>4, <3>4, <3>5
  <2>4. InFlight(s, o)' => o \in d[s] \/ InFlight(s, o)
    <3>1. OnWire(s, o)' <=> OnWire(s, o)
      BY DEF OnWire
    <3>. QED BY <1>3, <3>1 DEF InFlight
  <2>5. WritesMine(s, o)'
    BY <1>4, <2>1, <2>4 DEF ReadySlot, WritesMine, Shared
  <2>6. StaleOnWire(s, o)'
    <3>1. <<s, o, FALSE>> \in wire => d[s] = {}
      BY <1>3 DEF OnWire
    <3>. QED BY <2>1, <3>1 DEF ReadySlot, StaleOnWire, Kept, StillKept
  <2>. QED BY <2>2, <2>3, <2>5, <2>6
<1>8. ASSUME NEW b \in Bytes PROVE (Shared(b)' => b \in home') /\ Somewhere(b)'
  <2>1. ReadyByte(d, b) /\ b = <<b[1], b[2]>> /\ b[2] \in Offsets
    BY DEF Ready, Bytes
  <2>2. Shared(b)' => b \in home'
    BY <1>6, <2>1 DEF ReadyByte, Shared
  <2>3. ASSUME b \notin home', b \notin Unwritten' PROVE \E s \in Slots : Saved(s, b)'
    <3>1. b \notin home
      BY <1>5, <2>3
    <3>2. PICK s \in Slots : ReadyCopy(d, s, b)
      BY <2>1, <2>3, <3>1 DEF ReadyByte
    <3>3. <<cached[s], b[2]>> = b
      BY <2>1, <3>2 DEF ReadyCopy
    <3>4. b[2] \in d[s] => <<s, b[2]>> \in puts'
      BY <1>3, <2>1, <2>3, <3>2, <3>3 DEF ReadyCopy
    <3>5. <<s, b[2]>> \in puts => <<s, b[2]>> \in puts'
      BY <1>3, <2>1
    <3>6. Saved(s, b)'
      BY <3>2, <3>4, <3>5 DEF ReadyCopy, Saved, Kept, StillKept
    <3>. QED BY <3>6
  <2>. QED BY <2>2, <2>3 DEF Somewhere
<1>. QED BY <1>7, <1>8 DEF DInv

(* Without a write-back.                                                   *)
LEMMA ReadyDInv ==
    ASSUME Ready(dirty'),
           UNCHANGED <<cached, valid, wire, fresh, gets, puts, home, owner, readonly>>
    PROVE  DInv'
<1>1. ASSUME NEW s \in Slots, NEW o \in Offsets
      PROVE  ValidFresh(s, o)' /\ FetchesHome(s, o)' /\ WritesMine(s, o)' /\ StaleOnWire(s, o)'
  <2>1. ReadySlot(dirty', s, o)
    BY DEF Ready
  <2>2. InFlight(s, o)' <=> InFlight(s, o)
    BY DEF InFlight, OnWire
  <2>. QED BY <2>1, <2>2
       DEF ReadySlot, ValidFresh, FetchesHome, WritesMine, StaleOnWire, Shared, Kept, StillKept
<1>2. ASSUME NEW b \in Bytes PROVE (Shared(b)' => b \in home') /\ Somewhere(b)'
  <2>1. ReadyByte(dirty', b)
    BY DEF Ready
  <2>2. \A s \in Slots : ReadyCopy(dirty', s, b) => Saved(s, b)'
    BY DEF ReadyCopy, Saved, Kept, StillKept
  <2>. QED BY <2>1, <2>2 DEF ReadyByte, Shared, Somewhere
<1>. QED BY <1>1, <1>2 DEF DInv

(* ensure_all_cache_clean() begins.                                        *)
LEMMA CleanCallDInv ==
    ASSUME SInv, DInv, NEW name, NEW r, CleanCall(name, r)
    PROVE  DInv'
<1>1. /\ writeback_begin(dirty, dirty_cache_blocks)
      /\ UNCHANGED <<cached, lru, valid, ref_count, mapVars, has_dirty_cache, fetchVars, wire, fresh,
                     readonly, tlb, owner, held>>
  BY DEF CleanCall
<1>2. Unwritten' = Unwritten /\ \A b : StillKept(b) <=> Kept(b)
  BY <1>1 DEF Unwritten, Kept, StillKept
<1>3. ASSUME NEW s \in Slots, NEW o \in Offsets PROVE ReadySlot(dirty, s, o)
  <2>1. ValidFresh(s, o) /\ FetchesHome(s, o) /\ WritesMine(s, o) /\ StaleOnWire(s, o)
    BY DEF DInv
  <2>. QED BY <1>2, <2>1 DEF ReadySlot, ValidFresh, FetchesHome, WritesMine, StaleOnWire
<1>4. ASSUME NEW b \in Bytes PROVE ReadyByte(dirty, b)
  <2>1. (Shared(b) => b \in home) /\ Somewhere(b)
    BY DEF DInv
  <2>2. \A s \in Slots : Saved(s, b) => ReadyCopy(dirty, s, b)
    BY <1>2 DEF Saved, ReadyCopy
  <2>. QED BY <1>2, <2>1, <2>2 DEF ReadyByte, Somewhere
<1>5. Ready(dirty)
  BY <1>3, <1>4 DEF Ready
<1>6. gets' = gets
  BY <1>1 DEF fetchVars
<1>. QED BY <1>1, <1>5, <1>6, DirtyListed, WritebackDInv

(* checkin(): what the program has written is dirty now.                   *)
LEMMA CheckinDInv == ASSUME SInv, DInv, NEW h \in held, checkin(h) PROVE DInv'
<1>1. /\ pc = "run" /\ h.request \in Requests /\ (h.request.mode = "write" => h.written)
      /\ held' = held \ {h}
      /\ UNCHANGED <<cached, lru, valid, mapVars, fetchVars, wire, fresh, callVars,
                     readonly, tlb, owner>>
      /\ gets = {}
  BY CheckinFacts
<1>2. PICK s \in Slots : /\ cached[s] = h.request.blk /\ h.request.reg \subseteq valid[s]
                         /\ \A t \in Slots : t # s => cached[t] # h.request.blk
                         /\ Returned(s, h.request)
  BY CheckinFacts
<1>3. gets' = gets
  BY <1>1 DEF fetchVars
<1>4. ASSUME NEW b PROVE b \in Unwritten => b \in Unwritten'
  <2> SUFFICES ASSUME b \in Unwritten PROVE b \in Unwritten'
    OBVIOUS
  <2>1. PICK k \in held : k.request.mode = "write" /\ ~k.written /\ b \in Part(k.request)
    BY UnwrittenFacts
  <2>2. k \in held'
    BY <1>1, <2>1
  <2>. QED BY <2>1, <2>2 DEF Unwritten
<1>5. ASSUME NEW b, Kept(b) PROVE StillKept(b) \/ (h.request.mode # "read" /\ b \in Part(h.request))
  <2>1. PICK k \in held : k.written /\ b \in Part(k.request)
    BY <1>5 DEF Kept
  <2>2. CASE k = h
    BY <2>1, <2>2, HeldCopy
  <2>3. CASE k # h
    BY <1>1, <2>1, <2>3 DEF StillKept
  <2>. QED BY <2>2, <2>3
<1>6. ASSUME NEW d \in [Slots -> SUBSET Offsets],
             \A t \in Slots : dirty[t] \subseteq d[t],
             \A t \in Slots, o \in Offsets :
                /\ o \in d[t] => o \in dirty[t] \/ (<<cached[t], o>> \in Part(h.request)
                                                     /\ h.request.mode # "read")
                /\ <<cached[t], o>> \in Part(h.request) /\ h.request.mode # "read" => o \in d[t]
      PROVE  Ready(d)
  <2>1. ASSUME NEW t \in Slots, NEW o \in Offsets PROVE ReadySlot(d, t, o)
    <3>1. ValidFresh(t, o) /\ WritesMine(t, o) /\ StaleOnWire(t, o)
      BY DEF DInv
    <3>2. <<cached[t], o>> \in Part(h.request) /\ h.request.mode # "read" =>
             ~Shared(<<cached[t], o>>)
      BY HeldCopy DEF Shared
    <3>3. o \in d[t] \/ InFlight(t, o) => ~Shared(<<cached[t], o>>)
      BY <1>6, <3>1, <3>2 DEF WritesMine
    <3>4. <<t, o, FALSE>> \in wire => \/ <<cached[t], o>> \in Unwritten'
                                      \/ <<t, o>> \in fresh /\ (o \in d[t] \/ StillKept(<<cached[t], o>>))
      BY <1>4, <1>5, <1>6, <3>1 DEF StaleOnWire
    <3>5. o \in valid[t] /\ (owner[<<cached[t], o>>] # "theirs" \/ <<cached[t], o>> \in readonly) =>
             <<t, o>> \in fresh \/ <<t, o>> \in gets \/ <<cached[t], o>> \in Unwritten'
      BY <1>4, <3>1 DEF ValidFresh
    <3>. QED BY <1>1, <3>3, <3>4, <3>5 DEF ReadySlot
  <2>2. ASSUME NEW b \in Bytes PROVE ReadyByte(d, b)
    <3>1. /\ (Shared(b) => b \in home) /\ Somewhere(b)
          /\ b = <<b[1], b[2]>> /\ b[2] \in Offsets
      BY DEF DInv, Bytes
    <3>2. ASSUME NEW t \in Slots, Saved(t, b) PROVE ReadyCopy(d, t, b)
      <4>1. <<cached[t], b[2]>> = b
        BY <3>1, <3>2 DEF Saved
      <4>2. Kept(b) => StillKept(b) \/ b[2] \in d[t]
        BY <1>5, <1>6, <3>1, <4>1
      <4>. QED BY <1>6, <3>2, <4>2 DEF Saved, ReadyCopy
    <3>. QED BY <1>4, <3>1, <3>2 DEF ReadyByte, Somewhere
  <2>. QED BY <2>1, <2>2 DEF Ready
<1>7. CASE h.request.mode = "read" /\ UNCHANGED <<dirty, writeVars, puts, home>>
  <2>1. dirty \in [Slots -> SUBSET Offsets]
    BY DEF SInv, TypeOK
  <2>2. Ready(dirty)
    BY <1>6, <1>7, <2>1
  <2>3. Ready(dirty')
    BY <1>7, <2>2
  <2>. QED BY <1>1, <1>3, <1>7, <2>3, ReadyDInv
<1>8. ASSUME h.request.mode # "read" PROVE Ready(Dirtied(s, h.request.reg))
  <2>1. PICK d : d = Dirtied(s, h.request.reg)
    OBVIOUS
  <2>2. h.request.reg \subseteq Offsets
    BY <1>1, RequestFacts
  <2>3. /\ d \in [Slots -> SUBSET Offsets] /\ d[s] = dirty[s] \cup h.request.reg
        /\ \A t \in Slots : t # s => d[t] = dirty[t]
    BY <2>1, <2>2 DEF Dirtied, SInv, TypeOK
  <2>4. \A t \in Slots, o \in Offsets :
           <<cached[t], o>> \in Part(h.request) <=> t = s /\ o \in h.request.reg
    BY <1>2, PartFacts
  <2>5. \A t \in Slots : dirty[t] \subseteq d[t]
    BY <2>3
  <2>6. \A t \in Slots, o \in Offsets :
           /\ o \in d[t] => o \in dirty[t] \/ (<<cached[t], o>> \in Part(h.request)
                                                /\ h.request.mode # "read")
           /\ <<cached[t], o>> \in Part(h.request) /\ h.request.mode # "read" => o \in d[t]
    BY <1>8, <2>3, <2>4
  <2>7. Ready(d)
    BY <1>6, <2>3, <2>5, <2>6
  <2>. QED BY <2>1, <2>7
<1>9. CASE /\ h.request.mode # "read" /\ dirty' = Dirtied(s, h.request.reg)
           /\ UNCHANGED <<puts, home, writing>>
  <2>1. Ready(dirty')
    BY <1>8, <1>9
  <2>. QED BY <1>1, <1>3, <1>9, <2>1, ReadyDInv
<1>10. ASSUME h.request.mode # "read", NEW list, Listed(Dirtied(s, h.request.reg), list),
              Backed(Dirtied(s, h.request.reg)), writeback_begin(Dirtied(s, h.request.reg), list)
       PROVE  DInv'
  BY <1>1, <1>3, <1>8, <1>10, WritebackDInv
<1>. QED BY <1>2, <1>7, <1>9, <1>10 DEF Returned

(* The epoch advances when everything has landed.                          *)
LEMMA WritebackCompleteDInv == ASSUME SInv, DInv, writeback_complete PROVE DInv'
<1>1. /\ pc = "complete" /\ (writing # {} => Flushed)
      /\ owner' = IF AllClean THEN EpochAdvanced ELSE owner
      /\ UNCHANGED <<slotVars, mapVars, dirty_cache_blocks, fetchVars, dataVars, readonly, tlb,
                     held, req>>
  BY DEF writeback_complete
<1>2. puts = {} /\ wire = {}
  BY <1>1, NoFlight
<1>3. Clean
  BY <1>1 DEF SInv, Calls
<1>4. /\ cached' = cached /\ valid' = valid /\ dirty' = dirty /\ gets' = gets /\ fresh' = fresh
      /\ puts' = {} /\ wire' = {} /\ home' = home /\ readonly' = readonly /\ held' = held
  BY <1>1, <1>2 DEF slotVars, fetchVars, dataVars
<1>5. Unwritten' = Unwritten /\ \A b : Kept(b)' <=> Kept(b)
  BY <1>4 DEF Unwritten, Kept
<1>6. \A b \in Bytes : /\ owner'[b] # "theirs" => owner[b] # "theirs"
                       /\ owner'[b] = "theirs" => owner[b] # "mine"
  BY <1>1 DEF EpochAdvanced, SInv, TypeOK
<1>7. ASSUME NEW s \in Slots, NEW o \in Offsets
      PROVE  ValidFresh(s, o)' /\ FetchesHome(s, o)' /\ WritesMine(s, o)' /\ StaleOnWire(s, o)'
  <2>1. ValidFresh(s, o) /\ FetchesHome(s, o)
    BY DEF DInv
  <2>2. o \in valid[s] => <<cached[s], o>> \in Bytes
    BY SlotFacts
  <2>3. ValidFresh(s, o)' /\ FetchesHome(s, o)'
    BY <1>4, <1>5, <1>6, <2>1, <2>2 DEF ValidFresh, FetchesHome
  <2>4. WritesMine(s, o)' /\ StaleOnWire(s, o)'
    BY <1>3, <1>4 DEF WritesMine, StaleOnWire, InFlight, OnWire, Clean
  <2>. QED BY <2>3, <2>4
<1>8. ASSUME NEW b \in Bytes PROVE (Shared(b)' => b \in home') /\ Somewhere(b)'
  <2>1. (Shared(b) => b \in home) /\ Somewhere(b)
    BY DEF DInv
  <2>2. owner'[b] = "theirs" => b \in home
    BY <1>2, <1>3, <1>6, OfferedHome
  <2>3. \A s \in Slots : Saved(s, b) => Saved(s, b)'
    BY <1>2, <1>4, <1>5 DEF Saved
  <2>. QED BY <1>4, <1>5, <2>1, <2>2, <2>3 DEF Shared, Somewhere
<1>. QED BY <1>7, <1>8 DEF DInv

(***************************************************************************)
(* Steps that are taken when nothing is dirty, in flight or checked out:   *)
(* home memory is right, and only the copies that stay valid matter.       *)
(***************************************************************************)
LEMMA QuietDInv ==
    ASSUME SInv, DInv, held = {}, Clean, puts = {}, wire = {}, gets = {},
           UNCHANGED <<held, dirty, puts, wire, gets>>, home \subseteq home',
           \A s \in Slots : \A o \in valid'[s] :
              /\ cached'[s] = cached[s] /\ o \in valid[s]
              /\ <<s, o>> \in fresh => <<s, o>> \in fresh'
              /\ owner'[<<cached[s], o>>] # "theirs" \/ <<cached[s], o>> \in readonly' =>
                    owner[<<cached[s], o>>] # "theirs" \/ <<cached[s], o>> \in readonly
    PROVE  DInv'
<1>1. \A b \in Bytes : b \in home'
  BY AllHome
<1>2. Unwritten' = Unwritten
  BY DEF Unwritten
<1>3. ASSUME NEW s \in Slots, NEW o \in Offsets
      PROVE  ValidFresh(s, o)' /\ FetchesHome(s, o)' /\ WritesMine(s, o)' /\ StaleOnWire(s, o)'
  <2>1. ValidFresh(s, o)
    BY DEF DInv
  <2>2. ValidFresh(s, o)'
    BY <1>2, <2>1 DEF ValidFresh
  <2>3. FetchesHome(s, o)' /\ WritesMine(s, o)' /\ StaleOnWire(s, o)'
    BY DEF FetchesHome, WritesMine, StaleOnWire, InFlight, OnWire, Clean
  <2>. QED BY <2>2, <2>3
<1>. QED BY <1>1, <1>3 DEF DInv, Somewhere

(* acquire() forgets what is valid, except for read-only memory.           *)
LEMMA InvalidateAllDInv ==
    ASSUME SInv, DInv, NEW got \in SUBSET Bytes, invalidate_all(got) PROVE DInv'
<1>1. /\ pc = "invalidate"
      /\ valid' = [s \in Slots |-> {o \in valid[s] : <<cached[s], o>> \in readonly}]
      /\ UNCHANGED <<cached, lru, dirty, ref_count, mapVars, writeVars, fetchVars, dataVars,
                     op, req, readonly, tlb, held>>
  BY DEF invalidate_all
<1>2. /\ held = {} /\ writing = {} /\ Clean /\ gets = {}
  BY <1>1 DEF SInv, Calls, Alone
<1>3. puts = {} /\ wire = {}
  BY <1>2, NoFlight
<1>4. UNCHANGED <<held, dirty, puts, wire, gets>> /\ home \subseteq home'
  BY <1>1 DEF fetchVars, dataVars
<1>5. \A s \in Slots : \A o \in valid'[s] :
         /\ cached'[s] = cached[s] /\ o \in valid[s] /\ (<<s, o>> \in fresh => <<s, o>> \in fresh')
         /\ <<cached[s], o>> \in readonly
  BY <1>1 DEF dataVars
<1>. QED BY <1>2, <1>3, <1>4, <1>5, QuietDInv

(* free_coll() evicts its block.                                           *)
LEMMA EnsureEvictedDInv == ASSUME SInv, DInv, ensure_evicted PROVE DInv'
<1>1. PICK hit : hit = {s \in Slots : cached[s] = req.blk}
  OBVIOUS
<1>2. /\ pc = "evict"
      /\ cached' = [s \in Slots |-> IF s \in hit THEN NoBlock ELSE cached[s]]
      /\ valid' = [s \in Slots |-> IF s \in hit THEN {} ELSE valid[s]]
      /\ home' = home \cup BlockBytes(req.blk)
      /\ fresh' = {p \in fresh : p[1] \notin hit}
      /\ UNCHANGED <<lru, dirty, ref_count, to_map, writeVars, fetchVars, puts, wire, op,
                     readonly, owner, held>>
  BY <1>1 DEF ensure_evicted
<1>3. /\ held = {} /\ writing = {} /\ Clean /\ gets = {}
  BY <1>2 DEF SInv, Calls, Alone
<1>4. puts = {} /\ wire = {}
  BY <1>3, NoFlight
<1>5. UNCHANGED <<held, dirty, puts, wire, gets>> /\ home \subseteq home'
  BY <1>2 DEF fetchVars
<1>6. \A s \in Slots : \A o \in valid'[s] :
         /\ cached'[s] = cached[s] /\ o \in valid[s] /\ (<<s, o>> \in fresh => <<s, o>> \in fresh')
         /\ owner' = owner /\ readonly' = readonly
  BY <1>2
<1>. QED BY <1>3, <1>4, <1>5, <1>6, QuietDInv

(* set_readonly_coll() right after acquire(): no copy of other memory is   *)
(* valid.                                                                  *)
LEMMA SetReadonlyDInv == ASSUME SetAfterAcquire, SInv, DInv, SetReadonly PROVE DInv'
<1>1. /\ pc = "set"
      /\ UNCHANGED <<slotVars, mapVars, writeVars, fetchVars, dataVars, op, tlb, owner, held>>
  BY DEF SetReadonly
<1>2. /\ held = {} /\ writing = {} /\ Clean /\ gets = {}
      /\ \A s \in Slots : \A o \in valid[s] : <<cached[s], o>> \in readonly
  BY <1>1 DEF SInv, Calls, Alone
<1>3. puts = {} /\ wire = {}
  BY <1>2, NoFlight
<1>4. UNCHANGED <<held, dirty, puts, wire, gets>> /\ home \subseteq home'
  BY <1>1 DEF slotVars, fetchVars, dataVars
<1>5. \A s \in Slots : \A o \in valid'[s] :
         /\ cached'[s] = cached[s] /\ o \in valid[s] /\ (<<s, o>> \in fresh => <<s, o>> \in fresh')
         /\ <<cached[s], o>> \in readonly
  BY <1>1, <1>2 DEF slotVars, dataVars
<1>. QED BY <1>2, <1>3, <1>4, <1>5, QuietDInv

(* Fewer bytes are read-only, or the program gives a byte away that it has *)
(* written back.                                                           *)
LEMMA RightsDInv ==
    ASSUME SInv, DInv, UNCHANGED <<cached, valid, dirty, puts, gets, wire, fresh, home, held>>,
           \A b \in Bytes :
              /\ owner'[b] # "theirs" \/ b \in readonly' => owner[b] # "theirs" \/ b \in readonly
              /\ Shared(b)' => Shared(b) \/ (~has_dirty_cache /\ held = {})
    PROVE  DInv'
<1>1. Unwritten' = Unwritten /\ \A b : Kept(b)' <=> Kept(b)
  BY DEF Unwritten, Kept
<1>2. ~has_dirty_cache => Clean /\ puts = {} /\ wire = {}
  BY NoFlight DEF SInv, Calls
<1>3. ASSUME NEW s \in Slots, NEW o \in Offsets
      PROVE  ValidFresh(s, o)' /\ FetchesHome(s, o)' /\ WritesMine(s, o)' /\ StaleOnWire(s, o)'
  <2>1. ValidFresh(s, o) /\ FetchesHome(s, o) /\ WritesMine(s, o) /\ StaleOnWire(s, o)
    BY DEF DInv
  <2>2. o \in valid[s] => <<cached[s], o>> \in Bytes
    BY SlotFacts
  <2>3. ValidFresh(s, o)' /\ FetchesHome(s, o)' /\ StaleOnWire(s, o)'
    BY <1>1, <2>1, <2>2 DEF ValidFresh, FetchesHome, StaleOnWire
  <2>4. WritesMine(s, o)'
    <3> SUFFICES ASSUME o \in dirty[s] \/ InFlight(s, o) PROVE ~Shared(<<cached[s], o>>)'
      BY DEF WritesMine, InFlight, OnWire
    <3>1. PICK b \in Bytes : b = <<cached[s], o>>
      BY <2>2, SlotFacts
    <3>2. has_dirty_cache
      BY <1>2 DEF Clean, InFlight, OnWire
    <3>3. ~Shared(b)
      BY <2>1, <3>1 DEF WritesMine
    <3>4. ~Shared(b)'
      BY <3>2, <3>3
    <3>. QED BY <3>1, <3>4 DEF Shared
  <2>. QED BY <2>3, <2>4
<1>4. ASSUME NEW b \in Bytes PROVE (Shared(b)' => b \in home') /\ Somewhere(b)'
  <2>1. (Shared(b) => b \in home) /\ Somewhere(b)
    BY DEF DInv
  <2>2. ~has_dirty_cache /\ held = {} => b \in home
    BY <1>2, AllHome
  <2>3. \A s \in Slots : Saved(s, b) => Saved(s, b)'
    BY <1>1 DEF Saved
  <2>. QED BY <1>1, <2>1, <2>2, <2>3 DEF Somewhere
<1>. QED BY <1>3, <1>4 DEF DInv

(* release_lazy().                                                         *)
LEMMA ReleaseLazyDInv == ASSUME SInv, DInv, NEW c \in Bytes, release_lazy(c) PROVE DInv'
<1>1. /\ held = {} /\ owner[c] = "mine"
      /\ owner' = [owner EXCEPT ![c] = IF has_dirty_cache THEN "offered" ELSE "theirs"]
      /\ UNCHANGED <<slotVars, mapVars, writeVars, fetchVars, dataVars, callVars,
                     readonly, tlb, held>>
  BY DEF release_lazy, Outside
<1>2. UNCHANGED <<cached, valid, dirty, puts, gets, wire, fresh, home, held>>
  BY <1>1 DEF slotVars, fetchVars, dataVars
<1>3. ASSUME NEW b \in Bytes
      PROVE  /\ owner'[b] # "theirs" \/ b \in readonly' => owner[b] # "theirs" \/ b \in readonly
             /\ Shared(b)' => Shared(b) \/ (~has_dirty_cache /\ held = {})
  BY <1>1 DEF Shared, SInv, TypeOK
<1>. QED BY <1>2, <1>3, RightsDInv

(* unset_readonly_coll().                                                  *)
LEMMA UnsetReadonlyDInv ==
    ASSUME SInv, DInv, NEW blk \in Blocks, unset_readonly_coll(blk) PROVE DInv'
<1>1. /\ readonly' = readonly \ BlockBytes(blk)
      /\ UNCHANGED <<slotVars, mapVars, writeVars, fetchVars, dataVars, callVars,
                     tlb, owner, held>>
  BY DEF unset_readonly_coll
<1>2. UNCHANGED <<cached, valid, dirty, puts, gets, wire, fresh, home, held>>
  BY <1>1 DEF slotVars, fetchVars, dataVars
<1>3. ASSUME NEW b \in Bytes
      PROVE  /\ owner'[b] # "theirs" \/ b \in readonly' => owner[b] # "theirs" \/ b \in readonly
             /\ Shared(b)' => Shared(b) \/ (~has_dirty_cache /\ held = {})
  BY <1>1 DEF Shared
<1>. QED BY <1>2, <1>3, RightsDInv

(* free() forgets the dirty bytes of an object.  None of its bytes is in   *)
(* flight any more.                                                        *)
LEMMA DiscardDirtyDInv == ASSUME SInv, DInv, NEW c \in Bytes, discard_dirty(c) PROVE DInv'
<1> DEFINE hit == {s \in Slots : cached[s] = c[1]}
           complete == hit \cap writing # {}
<1>1. /\ pc = "run" /\ held = {} /\ owner[c] = "mine" /\ c \notin readonly
      /\ dirty' = [s \in Slots |-> IF s \in hit THEN dirty[s] \ {c[2]} ELSE dirty[s]]
      /\ complete => Flushed
      /\ home' = home \cup {c} /\ fresh' = Without({c} \ home) /\ wire' = Outdated({c} \ home)
      /\ owner' = [(IF complete /\ AllClean THEN EpochAdvanced ELSE owner) EXCEPT ![c] = "theirs"]
      /\ UNCHANGED <<cached, valid, ref_count, mapVars, dirty_cache_blocks, fetchVars, puts, callVars,
                     readonly, tlb, held>>
  BY DEF discard_dirty, Outside, Reverted
<1>2. c = <<c[1], c[2]>> /\ c[1] \in Blocks /\ c[2] \in Offsets
  BY DEF Bytes
<1>3. /\ cached' = cached /\ valid' = valid /\ gets' = gets /\ puts' = puts
      /\ readonly' = readonly /\ held' = {}
  BY <1>1 DEF fetchVars
<1>4. /\ \A b : ~Kept(b) /\ ~Kept(b)' /\ b \notin Unwritten
      /\ Unwritten' = Unwritten
  BY <1>1, <1>3, UnwrittenFacts DEF Kept, Unwritten
<1>5. ASSUME NEW s \in Slots, NEW o \in Offsets, InFlight(s, o)
      PROVE  ~complete /\ <<cached[s], o>> # c
  <2>1. s \in writing
    BY <1>5, SlotFacts
  <2>2. ~complete
    BY <1>1, <1>5 DEF Flushed, InFlight, OnWire
  <2>. QED BY <1>2, <2>1, <2>2
<1>6. complete /\ AllClean => Clean /\ puts = {} /\ wire = {}
  BY <1>1, CleanIfListEmpty DEF AllClean, Flushed
<1>7. \A s \in Slots, o \in Offsets :
         o \in dirty'[s] <=> o \in dirty[s] /\ <<cached[s], o>> # c
  BY <1>1, <1>2 DEF SInv, TypeOK
<1> HIDE DEF hit, complete
<1>8. /\ owner'[c] = "theirs"
      /\ \A b \in Bytes : /\ owner'[b] # "theirs" => owner[b] # "theirs"
                          /\ ~(complete /\ AllClean) /\ b # c => owner'[b] = owner[b]
  BY <1>1 DEF SInv, TypeOK, EpochAdvanced
<1>9. ASSUME NEW s \in Slots, NEW o \in Offsets, <<cached[s], o>> # c
      PROVE  <<s, o>> \in fresh' <=> <<s, o>> \in fresh
  BY <1>1, <1>9 DEF Without
<1>10. ASSUME NEW s \in Slots, NEW o \in Offsets
       PROVE  /\ <<s, o, TRUE>> \in wire' => <<s, o, TRUE>> \in wire
              /\ <<cached[s], o>> # c => /\ <<s, o, TRUE>> \in wire => <<s, o, TRUE>> \in wire'
                                         /\ <<s, o, FALSE>> \in wire' => <<s, o, FALSE>> \in wire
              /\ <<s, o, FALSE>> \in wire' => <<s, o, FALSE>> \in wire \/ <<s, o, TRUE>> \in wire
  BY <1>1, OutdatedFacts DEF SInv
<1>11. ASSUME NEW s \in Slots, NEW o \in Offsets
       PROVE  ValidFresh(s, o)' /\ FetchesHome(s, o)' /\ WritesMine(s, o)' /\ StaleOnWire(s, o)'
  <2>1. ValidFresh(s, o) /\ FetchesHome(s, o) /\ WritesMine(s, o) /\ StaleOnWire(s, o)
    BY DEF DInv
  <2>2. o \in valid[s] => <<cached[s], o>> \in Bytes
    BY SlotFacts
  <2>3. ValidFresh(s, o)'
    BY <1>1, <1>3, <1>4, <1>8, <1>9, <2>1, <2>2 DEF ValidFresh
  <2>4. FetchesHome(s, o)'
    BY <1>1, <1>3, <2>1 DEF FetchesHome
  <2>5. InFlight(s, o)' => InFlight(s, o)
    BY <1>3, <1>10 DEF InFlight, OnWire
  <2>6. WritesMine(s, o)'
    <3> SUFFICES ASSUME o \in dirty'[s] \/ InFlight(s, o) PROVE ~Shared(<<cached[s], o>>)'
      BY <2>5 DEF WritesMine
    <3>1. PICK b \in Bytes : b = <<cached[s], o>>
      BY <1>7, <2>2, SlotFacts
    <3>2. b # c /\ ~(complete /\ AllClean) /\ ~Shared(b)
      BY <1>5, <1>6, <1>7, <2>1, <3>1 DEF WritesMine, Clean
    <3>3. ~Shared(b)'
      BY <1>3, <1>8, <3>2 DEF Shared
    <3>. QED BY <1>3, <3>1, <3>3 DEF Shared
  <2>7. <<s, o, FALSE>> \in wire' => <<s, o, FALSE>> \in wire /\ <<cached[s], o>> # c
    BY <1>5, <1>10, SlotFacts
  <2>8. StaleOnWire(s, o)'
    BY <1>3, <1>4, <1>7, <1>9, <2>1, <2>7 DEF StaleOnWire
  <2>. QED BY <2>3, <2>4, <2>6, <2>8
<1>12. ASSUME NEW b \in Bytes PROVE (Shared(b)' => b \in home') /\ Somewhere(b)'
  <2>1. /\ (Shared(b) => b \in home) /\ Somewhere(b)
        /\ b = <<b[1], b[2]>> /\ b[2] \in Offsets
    BY DEF DInv, Bytes
  <2>2. CASE b = c
    BY <1>1, <2>2 DEF Somewhere
  <2>3. CASE b # c
    <3>1. complete /\ AllClean => b \in home
      BY <1>1, <1>6, AllHome
    <3>2. Shared(b)' => b \in home'
      BY <1>1, <1>3, <1>8, <2>1, <2>3, <3>1 DEF Shared
    <3>3. ASSUME NEW s \in Slots, Saved(s, b) PROVE Saved(s, b)'
      <4>1. <<cached[s], b[2]>> = b
        BY <2>1, <3>3 DEF Saved
      <4>. QED BY <1>3, <1>4, <1>7, <1>9, <1>10, <2>1, <2>3, <3>3, <4>1 DEF Saved
    <3>. QED BY <1>1, <1>4, <2>1, <3>2, <3>3 DEF Somewhere
  <2>. QED BY <2>2, <2>3
<1>. QED BY <1>11, <1>12 DEF DInv

--------------------------------------------------------------------------------
(* The initial state.                                                      *)
LEMMA InitDInv == Init => DInv
<1> SUFFICES ASSUME Init PROVE DInv
  OBVIOUS
<1>1. ASSUME NEW s \in Slots, NEW o \in Offsets
      PROVE  ValidFresh(s, o) /\ FetchesHome(s, o) /\ WritesMine(s, o) /\ StaleOnWire(s, o)
  BY DEF Init, ValidFresh, FetchesHome, WritesMine, StaleOnWire, InFlight, OnWire
<1>2. \A b \in Bytes : b \in home
  BY DEF Init
<1>. QED BY <1>1, <1>2 DEF DInv, Somewhere

(* Every step.                                                             *)
LEMMA NextDInv == ASSUME SetAfterAcquire, SInv, DInv, [Next]_vars PROVE DInv'
<1>1. ASSUME NEW r \in Requests, NEW s \in Slots, NEW v, Placed(s, r, v), cached[s] = r.blk,
             fresh' = fresh
      PROVE  DInv'
  <2>1. FreshPlaced(s, r)
    BY <1>1 DEF FreshPlaced
  <2>. QED BY <1>1, <2>1, PlacedDInv
<1>2. ASSUME NEW r \in Requests, checkout_fast(r) \/ CheckoutHit(r) PROVE DInv'
  BY <1>1, <1>2, CheckoutFastPlaced, CheckoutHitPlaced
<1>3. ASSUME NEW r \in Requests, CheckoutMiss(r) PROVE DInv'
  <2>1. PICK s \in Slots : /\ Placed(s, r, {}) /\ cached[s] # r.blk
                           /\ fresh' = {p \in fresh : p[1] # s}
    BY <1>3, CheckoutMissPlaced
  <2>2. FreshPlaced(s, r)
    BY <2>1 DEF FreshPlaced
  <2>. QED BY <2>1, <2>2, PlacedDInv
<1>4. ASSUME NEW r \in Requests, CheckoutFull(r) PROVE DInv'
  BY <1>4, CleanCallDInv DEF CheckoutFull
<1>5. ASSUME NEW blk \in Blocks, free_coll(blk) \/ set_readonly_coll(blk) PROVE DInv'
  BY <1>5, CleanCallDInv DEF free_coll, set_readonly_coll
<1>6. CASE die \/ CheckoutReturn \/ update_mapping \/ fetch_complete \/ vars' = vars
  <2>1. UNCHANGED <<cached, valid, dirty, puts, gets, wire, fresh, home, owner, readonly, held>>
    BY <1>6 DEF die, CheckoutReturn, update_mapping, fetch_complete, vars, slotVars, fetchVars,
                dataVars
  <2>. QED BY <2>1, DataFrame
<1>7. CASE \E r \in Requests : Checkouts(r)
  BY <1>2, <1>3, <1>4, <1>7 DEF Checkouts
<1>8. CASE \E h \in held : Write(h) \/ checkin(h)
  BY <1>8, WriteDInv, CheckinDInv
<1>9. CASE release \/ acquire
  BY <1>9, CleanCallDInv DEF release, acquire
<1>10. CASE \E got \in SUBSET Bytes : invalidate_all(got)
  BY <1>10, InvalidateAllDInv
<1>11. CASE \E b \in Bytes : release_lazy(b) \/ OthersWrite(b) \/ discard_dirty(b)
  BY <1>11, ReleaseLazyDInv, OthersWriteDInv, DiscardDirtyDInv
<1>12. CASE \E blk \in Blocks : free_coll(blk) \/ set_readonly_coll(blk) \/ unset_readonly_coll(blk)
  BY <1>5, <1>12, UnsetReadonlyDInv
<1>. QED BY <1>6, <1>7, <1>8, <1>9, <1>10, <1>11, <1>12, PutReadsDInv, PutLandsDInv, GetLandsDInv,
            WritebackCompleteDInv, EnsureEvictedDInv, SetReadonlyDInv DEF Next

(***************************************************************************)
(* Copies that count are fresh, and nothing is lost, if set_readonly_coll()*)
(* is called right after acquire().                                        *)
(***************************************************************************)
THEOREM DataInvariant == ASSUME SetAfterAcquire PROVE Spec => []DInv
<1>1. SInv /\ DInv /\ [Next]_vars => DInv'
  BY NextDInv
<1>. QED BY <1>1, InitDInv, StructureInvariant, PTL DEF Spec

(* When other ranks may use a byte, or all may read it, home memory has    *)
(* its last value.                                                         *)
THEOREM HomeLatestHolds == ASSUME SetAfterAcquire PROVE Spec => []HomeLatest
<1>1. DInv => HomeLatest
  BY DEF DInv, HomeLatest, Shared
<1>. QED BY <1>1, DataInvariant, PTL

(* The last value of a byte is at home or on its way.                      *)
THEOREM NoLostWriteHolds == ASSUME SetAfterAcquire PROVE Spec => []NoLostWrite
<1>1. ASSUME DInv PROVE NoLostWrite
  <2> SUFFICES ASSUME NEW b \in Bytes \ (home \cup Unwritten)
               PROVE  \E s \in Slots :
                         /\ cached[s] = b[1] /\ <<s, b[2]>> \in fresh
                         /\ \/ b[2] \in dirty[s]
                            \/ <<s, b[2]>> \in puts \/ <<s, b[2], TRUE>> \in wire
                            \/ \E h \in held : h.written /\ b \in Part(h.request)
    BY DEF NoLostWrite
  <2>1. PICK s \in Slots : Saved(s, b)
    BY <1>1 DEF DInv, Somewhere
  <2>. QED BY <2>1 DEF Saved, Kept
<1>. QED BY <1>1, DataInvariant, PTL

(* A checked-out region has the latest data, where it is mapped.           *)
THEOREM CheckedOutLatestHolds == ASSUME SetAfterAcquire PROVE Spec => []CheckedOutLatest
<1>1. ASSUME SInv, DInv PROVE CheckedOutLatest
  <2> SUFFICES ASSUME pc = "run", NEW h \in held
               PROVE  LET s == vm[h.request.blk] IN
                      /\ s # NoSlot /\ cached[s] = h.request.blk
                      /\ \A o \in h.request.reg :
                            <<h.request.blk, o>> \notin Unwritten => <<s, o>> \in fresh
    BY DEF CheckedOutLatest
  <2>1. h.request \in Requests
    BY <1>1, HeldFacts DEF SInv
  <2>2. h.request.blk \in Blocks /\ h.request.reg \subseteq Offsets
    BY <2>1, RequestFacts
  <2>3. gets = {} /\ to_map = <<>>
    BY <1>1 DEF SInv, Calls
  <2>4. PICK s \in Slots : cached[s] = h.request.blk /\ h.request.reg \subseteq valid[s]
    BY <1>1 DEF SInv, Rights
  <2>5. mapped[s] = cached[s]
    BY <1>1, <2>3 DEF SInv, Maps, ToMap
  <2>6. vm[h.request.blk] = s
    BY <1>1, <2>2, <2>4, <2>5 DEF SInv, Maps
  <2>7. ASSUME NEW o \in h.request.reg, <<h.request.blk, o>> \notin Unwritten
        PROVE  <<s, o>> \in fresh
    <3>1. PICK b \in Part(h.request) : b = <<h.request.blk, o>>
      BY PartFacts
    <3>2. owner[b] = "mine"
      BY <1>1, HeldCopy
    <3>3. ValidFresh(s, o) /\ o \in valid[s]
      BY <1>1, <2>2, <2>4 DEF DInv
    <3>. QED BY <2>3, <2>4, <2>7, <3>1, <3>2, <3>3 DEF ValidFresh
  <2>. QED BY <2>4, <2>6, <2>7, CacheAssumption
<1>. QED BY <1>1, StructureInvariant, DataInvariant, PTL

================================================================================
