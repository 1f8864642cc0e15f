----------------------------- MODULE TableProofs -----------------------------
(***************************************************************************)
(* The two hash tables implement partial functions, for every table size,   *)
(* every set of keys and whatever malloc and strdup answer: disassembler.c  *)
(* keeps the latest line of an address, the symbol table of loader.c the    *)
(* first address of a name.  Both proofs rest on what a walk along a chain  *)
(* finds, before and after a push.                                          *)
(***************************************************************************)
EXTENDS SourceMap, SymbolTable, TLAPS

(* A walk stops at one node only. *)
LEMMA StopsOnce ==
  ASSUME NEW S, NEW chain \in Seq(S), NEW k, NEW i, NEW j,
         Stops(chain, k, i), Stops(chain, k, j)
  PROVE  i = j
<1>1. i \in Nat \ {0} /\ j \in Nat \ {0}
  BY DEF Stops
<1>2. ~ (i < j) /\ ~ (j < i)
  BY <1>1 DEF Stops
<1> QED BY <1>1, <1>2

(* The walk returns the value of the node it stops at. *)
LEMMA FoundWhereStops ==
  ASSUME NEW S, NEW chain \in Seq(S), NEW k, NEW none, NEW i, Stops(chain, k, i)
  PROVE  Found(chain, k, none) = chain[i].value
<1> DEFINE at == CHOOSE j \in DOMAIN chain : Stops(chain, k, j)
<1>1. i \in DOMAIN chain
  BY DEF Stops
<1>2. Stops(chain, k, at)
  BY <1>1
<1>3. at = i
  BY <1>2, StopsOnce
<1> QED BY <1>1, <1>3 DEF Found

(* An empty chain holds nothing. *)
LEMMA FoundNothing == \A k, none : Found(<<>>, k, none) = none
  BY DEF Found

(* What a push does to a chain: it moves every node by one. *)
LEMMA PushedChain ==
  ASSUME NEW S, NEW chain \in Seq(S), NEW k, NEW v
  PROVE  /\ DOMAIN Pushed(k, v, chain) = 1 .. Len(chain) + 1
         /\ Pushed(k, v, chain)[1] = [key |-> k, value |-> v]
         /\ \A i \in 1 .. Len(chain) : Pushed(k, v, chain)[i + 1] = chain[i]
         /\ \A T : [key |-> k, value |-> v] \in T /\ chain \in Seq(T)
                     => Pushed(k, v, chain) \in Seq(T)
  BY DEF Pushed

(* After a push the walk finds the new value for its key and what it found   *)
(* before for every other.                                                   *)
LEMMA FoundPushed ==
  ASSUME NEW S, NEW chain \in Seq(S), NEW k, NEW v, NEW other, NEW none
  PROVE  Found(Pushed(k, v, chain), other, none)
           = IF other = k THEN v ELSE Found(chain, other, none)
<1> DEFINE new == Pushed(k, v, chain)
<1>0. /\ DOMAIN new = 1 .. Len(chain) + 1
      /\ new[1] = [key |-> k, value |-> v]
      /\ \A i \in 1 .. Len(chain) : new[i + 1] = chain[i]
  BY PushedChain
<1>1. new \in Seq(S \cup {[key |-> k, value |-> v]})
  BY DEF Pushed
<1>len. Len(chain) \in Nat /\ DOMAIN chain = 1 .. Len(chain)
  OBVIOUS
<1> HIDE DEF new
<1>2. CASE other = k
  <2>1. Stops(new, other, 1)
    BY <1>0, <1>2, <1>len DEF Stops
  <2>2. Found(new, other, none) = new[1].value
    BY <2>1, <1>1, FoundWhereStops
  <2> QED BY <2>2, <1>0, <1>2 DEF new
<1>3. CASE other # k
  <2>1. ASSUME NEW i \in DOMAIN chain, Stops(chain, other, i)
        PROVE  Stops(new, other, i + 1)
    <3>1. i + 1 \in DOMAIN new /\ new[i + 1].key = other
      BY <2>1, <1>0, <1>len DEF Stops
    <3>2. ASSUME NEW j \in 1 .. i
          PROVE  new[j].key # other
      <4>1. CASE j = 1
        BY <4>1, <1>0, <1>3
      <4>2. CASE j # 1
        <5>1. j - 1 \in 1 .. i - 1 /\ j - 1 \in 1 .. Len(chain) /\ (j - 1) + 1 = j
          BY <4>2, <1>len
        <5>2. new[j] = chain[j - 1] /\ chain[j - 1].key # other
          BY <5>1, <1>0, <2>1 DEF Stops
        <5> QED BY <5>2
      <4> QED BY <4>1, <4>2
    <3>3. 1 .. (i + 1) - 1 = 1 .. i
      BY <1>len
    <3> QED BY <3>1, <3>2, <3>3 DEF Stops
  <2>2. ASSUME NEW n \in DOMAIN new, Stops(new, other, n)
        PROVE  n - 1 \in DOMAIN chain /\ Stops(chain, other, n - 1)
    <3>1. n # 1
      BY <2>2, <1>0, <1>3 DEF Stops
    <3>2. n - 1 \in 1 .. Len(chain) /\ (n - 1) + 1 = n
      BY <3>1, <1>0, <1>len
    <3>3. chain[n - 1].key = other
      BY <3>2, <1>0, <2>2 DEF Stops
    <3>4. ASSUME NEW j \in 1 .. (n - 1) - 1
          PROVE  chain[j].key # other
      <4>1. j + 1 \in 1 .. n - 1 /\ j \in 1 .. Len(chain)
        BY <3>2, <1>len
      <4> QED BY <4>1, <1>0, <2>2 DEF Stops
    <3> QED BY <3>2, <3>3, <3>4, <1>len DEF Stops
  <2>3. CASE \E i \in DOMAIN chain : Stops(chain, other, i)
    <3>1. PICK i \in DOMAIN chain : Stops(chain, other, i)
      BY <2>3
    <3>2. Found(chain, other, none) = chain[i].value
      BY <3>1, FoundWhereStops
    <3>3. Found(new, other, none) = new[i + 1].value
      BY <3>1, <2>1, <1>1, FoundWhereStops
    <3> QED BY <3>2, <3>3, <1>0, <1>len, <1>3 DEF new
  <2>4. CASE ~ \E i \in DOMAIN chain : Stops(chain, other, i)
    <3>1. ~ \E n \in DOMAIN new : Stops(new, other, n)
      BY <2>4, <2>2
    <3>2. Found(new, other, none) = none /\ Found(chain, other, none) = none
      BY <3>1, <2>4 DEF Found
    <3> QED BY <3>2, <1>3 DEF new
  <2> QED BY <2>3, <2>4
<1> QED BY <1>2, <1>3

-----------------------------------------------------------------------------
(* The hash of an address is the number of a bucket. *)
LEMMA HashType == \A address \in Addresses : hash(address) \in Buckets
  BY ChainsAssumption DEF hash, Buckets

(* An empty table finds nothing. *)
LEMMA EmptyFindsNothing ==
  ASSUME hash_table = EmptyTable
  PROVE  \A address \in Addresses : disassembler_get_mapping(address) = NoMapping
  BY HashType DEF EmptyTable, disassembler_get_mapping, Found

(* Nothing is in a chain at first. *)
LEMMA InitialChains == SourceMapInit => NodesAreInTheirChains
<1> SUFFICES ASSUME SourceMapInit PROVE NodesAreInTheirChains
  OBVIOUS
<1> QED BY DEF SourceMapInit, EmptyTable, NodesAreInTheirChains

(* Every chain keeps to the addresses of its bucket. *)
LEMMA ChainsKept == NodesAreInTheirChains /\ [SourceMapNext]_hash_table => NodesAreInTheirChains'
<1> SUFFICES ASSUME NodesAreInTheirChains, [SourceMapNext]_hash_table
             PROVE  NodesAreInTheirChains'
  OBVIOUS
<1>1. CASE UNCHANGED hash_table
  BY <1>1 DEF NodesAreInTheirChains
<1>2. CASE disassembler_cleanup
  BY <1>2 DEF disassembler_cleanup, EmptyTable, NodesAreInTheirChains
<1>3. ASSUME NEW address \in Addresses, NEW line \in Lines,
             disassembler_add_mapping(address, line, TRUE)
      PROVE  NodesAreInTheirChains'
  <2> DEFINE b0 == hash(address)
             chain == hash_table[b0]
             new == Pushed(address, line, chain)
  <2>1. b0 \in Buckets /\ chain \in Seq(MappingNode)
    BY HashType DEF NodesAreInTheirChains
  <2>2. hash_table' = [hash_table EXCEPT ![b0] = new]
    BY <1>3 DEF disassembler_add_mapping
  <2>3. [key |-> address, value |-> line] \in MappingNode
    BY DEF MappingNode
  <2>4. /\ DOMAIN new = 1 .. Len(chain) + 1
        /\ new[1] = [key |-> address, value |-> line]
        /\ \A i \in 1 .. Len(chain) : new[i + 1] = chain[i]
    BY <2>1, PushedChain
  <2>5. new \in Seq(MappingNode)
    BY <2>1, <2>3, PushedChain
  <2>6. ASSUME NEW i \in DOMAIN new
        PROVE  hash(new[i].key) = b0
    <3>1. CASE i = 1
      BY <3>1, <2>4
    <3>2. CASE i # 1
      <4>1. i - 1 \in 1 .. Len(chain) /\ (i - 1) + 1 = i /\ DOMAIN chain = 1 .. Len(chain)
        BY <3>2, <2>1, <2>4
      <4>2. new[i] = chain[i - 1]
        BY <4>1, <2>4
      <4> QED BY <4>1, <4>2, <2>1 DEF NodesAreInTheirChains
    <3> QED BY <3>1, <3>2
  <2> HIDE DEF b0, chain, new
  <2>7. hash_table \in [Buckets -> Seq(MappingNode)]
    BY DEF NodesAreInTheirChains
  <2>8. hash_table' \in [Buckets -> Seq(MappingNode)]
    BY <2>1, <2>2, <2>5, <2>7
  <2>9. ASSUME NEW b \in Buckets, NEW i \in DOMAIN hash_table'[b]
        PROVE  hash(hash_table'[b][i].key) = b
    <3>1. CASE b = b0
      BY <3>1, <2>1, <2>2, <2>6, <2>7
    <3>2. CASE b # b0
      BY <3>2, <2>1, <2>2, <2>7 DEF NodesAreInTheirChains
    <3> QED BY <3>1, <3>2
  <2> QED BY <2>8, <2>9 DEF NodesAreInTheirChains
<1>4. ASSUME NEW address \in Addresses, NEW line \in Lines,
             disassembler_add_mapping(address, line, FALSE)
      PROVE  UNCHANGED hash_table
  BY <1>4 DEF disassembler_add_mapping
<1> QED BY <1>1, <1>2, <1>3, <1>4 DEF SourceMapNext

(* A new node enters its line, and changes what no other address finds. *)
LEMMA MappingEnters ==
  ASSUME NodesAreInTheirChains, NEW address \in Addresses, NEW line \in Lines,
         disassembler_add_mapping(address, line, TRUE)
  PROVE  LineOf!Enter(address, line)
<1> DEFINE entry == [other \in Addresses |-> disassembler_get_mapping(other)]
<1>1. /\ hash_table \in [Buckets -> Seq(MappingNode)]
      /\ hash(address) \in Buckets
      /\ hash_table' = [hash_table EXCEPT
                          ![hash(address)] = Pushed(address, line, hash_table[hash(address)])]
  BY HashType DEF NodesAreInTheirChains, disassembler_add_mapping
<1>2. ASSUME NEW other \in Addresses
      PROVE  Found(hash_table'[hash(other)], other, NoMapping)
               = IF other = address THEN line
                 ELSE Found(hash_table[hash(other)], other, NoMapping)
  <2>1. CASE hash(other) = hash(address)
    <3>1. hash_table'[hash(other)] = Pushed(address, line, hash_table[hash(address)])
      BY <1>1, <2>1
    <3>2. hash_table[hash(address)] \in Seq(MappingNode)
      BY <1>1
    <3> QED BY <2>1, <3>1, <3>2, FoundPushed
  <2>2. CASE hash(other) # hash(address)
    <3>1. hash_table'[hash(other)] = hash_table[hash(other)]
      BY <1>1, <2>2, HashType
    <3> QED BY <2>2, <3>1
  <2> QED BY <2>1, <2>2
<1>3. entry' = [entry EXCEPT ![address] = line]
  BY <1>2 DEF disassembler_get_mapping
<1> QED BY <1>3 DEF LineOf!Enter

(* One step of the table is one step of the function it stands for. *)
LEMMA StepImplements ==
  NodesAreInTheirChains /\ [SourceMapNext]_hash_table
    => [LineOf!LatestNext]_[address \in Addresses |-> disassembler_get_mapping(address)]
<1> DEFINE entry == [address \in Addresses |-> disassembler_get_mapping(address)]
<1> SUFFICES ASSUME NodesAreInTheirChains, [SourceMapNext]_hash_table
             PROVE  LineOf!LatestNext \/ entry' = entry
  OBVIOUS
<1>1. CASE UNCHANGED hash_table
  BY <1>1 DEF disassembler_get_mapping
<1>2. CASE disassembler_cleanup
  <2>1. entry' = [address \in Addresses |-> NoMapping]
    BY <1>2, HashType DEF disassembler_cleanup, EmptyTable, disassembler_get_mapping, Found
  <2> QED BY <2>1 DEF LineOf!LatestNext, LineOf!Clear, LineOf!Empty
<1>3. ASSUME NEW address \in Addresses, NEW line \in Lines,
             disassembler_add_mapping(address, line, TRUE)
      PROVE  LineOf!LatestNext
  BY <1>3, MappingEnters DEF LineOf!LatestNext
<1>4. ASSUME NEW address \in Addresses, NEW line \in Lines,
             disassembler_add_mapping(address, line, FALSE)
      PROVE  UNCHANGED hash_table
  BY <1>4 DEF disassembler_add_mapping
<1> QED BY <1>1, <1>2, <1>3, <1>4 DEF SourceMapNext

(* Every addition that has its memory is an entry. *)
LEMMA StepMakesMapping ==
  NodesAreInTheirChains /\ [SourceMapNext]_hash_table => [MappingIsMade]_hash_table
  BY MappingEnters DEF MappingIsMade

(* The look-up finds the latest line mapped at an address, and nothing that  *)
(* happens to the addresses in the same chain, a failing malloc included,     *)
(* changes it.                                                               *)
THEOREM SourceMapCorrect == SourceMapSpec => LatestLineIsFound /\ []NodesAreInTheirChains
<1>1. SourceMapInit => LineOf!Init
  BY EmptyFindsNothing DEF SourceMapInit, LineOf!Init, LineOf!Empty
<1> QED BY <1>1, InitialChains, ChainsKept, StepImplements, StepMakesMapping, PTL
        DEF SourceMapSpec, LatestLineIsFound, LineOf!LatestSpec

-----------------------------------------------------------------------------
(* Lost names neither hide a symbol from a walk that returns nor change what*)
(* it returns; that is why find_symbol, which stands for those walks, says  *)
(* nothing of the nodes without a name.                                     *)

(* The index of a name is the number of a bucket. *)
LEMMA SymbolIndexType == \A name \in Names : hash_index(name) \in Buckets
  BY ChainsAssumption, SymbolTableAssumption DEF hash_index, Buckets

(* A name that the walk does not find is nowhere in its chain: since no name *)
(* is there twice, the walk would stop at it.                                *)
LEMMA NotFoundIsAbsent ==
  ASSUME OneNodePerName, NEW name \in Names, find_symbol(name) = NoSymbol
  PROVE  \A i \in DOMAIN ChainOf(name) : ChainOf(name)[i].key # name
<1> DEFINE b0 == hash_index(name)
           chain == table[b0]
<1> SUFFICES ASSUME NEW i \in DOMAIN chain, chain[i].key = name
             PROVE  FALSE
  BY DEF ChainOf
<1>1. b0 \in Buckets /\ chain \in Seq(Symbol)
  BY SymbolIndexType DEF OneNodePerName
<1>2. ASSUME NEW j \in 1 .. i - 1
      PROVE  chain[j].key # name
  <2>1. j \in DOMAIN chain /\ j # i
    BY <1>1
  <2> QED BY <1>1, <2>1, SymbolTableAssumption DEF OneNodePerName
<1>3. Stops(chain, name, i)
  BY <1>2 DEF Stops
<1>4. Found(chain, name, NoSymbol) = chain[i].value
  BY <1>1, <1>3, FoundWhereStops
<1>5. chain[i] \in Symbol
  BY <1>1
<1> QED BY <1>4, <1>5, ChainsAssumption, SymbolTableAssumption DEF Symbol, find_symbol, ChainOf

(* No name is twice in an empty table. *)
LEMMA EmptyHasOneNode ==
  /\ EmptyTable \in [Buckets -> Seq(Symbol)]
  /\ \A b \in Buckets : \A i, j \in DOMAIN EmptyTable[b] : FALSE
<1>1. \A b \in Buckets : EmptyTable[b] = <<>>
  BY DEF EmptyTable
<1>2. DOMAIN <<>> = {} /\ <<>> \in Seq(Symbol)
  OBVIOUS
<1>3. EmptyTable \in [Buckets -> Seq(Symbol)]
  BY <1>2 DEF EmptyTable
<1>4. \A b \in Buckets : DOMAIN EmptyTable[b] = {}
  BY <1>1, <1>2
<1> QED BY <1>3, <1>4

(* No name is twice in the table at first. *)
LEMMA InitialSymbols == create_symbol_table => OneNodePerName
<1> SUFFICES ASSUME create_symbol_table PROVE OneNodePerName
  OBVIOUS
<1>1. table = EmptyTable
  BY DEF create_symbol_table
<1> QED BY Zenon, <1>1, EmptyHasOneNode DEF OneNodePerName

(* What add_symbol does to the table where it adds a node. *)
LEMMA AddedSymbol ==
  ASSUME NEW name, NEW address, NEW stored_name, add_symbol(name, address, stored_name)
  PROVE  table' = [table EXCEPT ![hash_index(name)] =
                     Pushed(stored_name, address, table[hash_index(name)])]
  BY DEF add_symbol, Enter

(* The table and its chains are what the invariant says. *)
LEMMA ChainTypes ==
  OneNodePerName => /\ table \in [Buckets -> Seq(Symbol)]
                    /\ \A name \in Names : table[hash_index(name)] \in Seq(Symbol)
  BY SymbolIndexType DEF OneNodePerName

(* A name is added only where it is not, and a lost name is no name. *)
LEMMA SymbolsKept == OneNodePerName /\ [SymbolTableNext]_symbols => OneNodePerName'
<1> SUFFICES ASSUME OneNodePerName, [SymbolTableNext]_symbols
             PROVE  OneNodePerName'
  OBVIOUS
<1>1. CASE UNCHANGED table
  BY <1>1 DEF OneNodePerName
<1>2. CASE destroy_symbol_table
  <2>1. table' = EmptyTable
    BY <1>2 DEF destroy_symbol_table
  <2> QED BY Zenon, <2>1, EmptyHasOneNode DEF OneNodePerName
<1>3. ASSUME NEW name \in Names, NEW address \in Addresses,
             NEW stored_name \in {name, NoName}, add_symbol(name, address, stored_name)
      PROVE  OneNodePerName'
  <2> DEFINE b0 == hash_index(name)
             chain == table[b0]
             new == Pushed(stored_name, address, chain)
  <2>1. /\ b0 \in Buckets /\ table \in [Buckets -> Seq(Symbol)] /\ chain \in Seq(Symbol)
        /\ [key |-> stored_name, value |-> address] \in Symbol
        /\ table' = [table EXCEPT ![b0] = new]
        /\ \A i \in DOMAIN chain : chain[i].key # name
    <3>1. b0 \in Buckets /\ table \in [Buckets -> Seq(Symbol)] /\ chain \in Seq(Symbol)
      BY SymbolIndexType, ChainTypes
    <3>2. [key |-> stored_name, value |-> address] \in Symbol
      BY DEF Symbol
    <3>3. table' = [table EXCEPT ![b0] = new]
      BY Zenon, <1>3, AddedSymbol
    <3>4. find_symbol(name) = NoSymbol
      BY <1>3 DEF add_symbol
    <3>5. \A i \in DOMAIN chain : chain[i].key # name
      BY <3>4, NotFoundIsAbsent DEF ChainOf
    <3> QED BY Zenon, <3>1, <3>2, <3>3, <3>5
  <2>2. /\ DOMAIN new = 1 .. Len(chain) + 1
        /\ new[1] = [key |-> stored_name, value |-> address]
        /\ \A i \in 1 .. Len(chain) : new[i + 1] = chain[i]
        /\ new \in Seq(Symbol)
    BY <2>1, PushedChain
  <2>3. Len(chain) \in Nat /\ DOMAIN chain = 1 .. Len(chain)
    BY <2>1
  <2>4. \A i, j \in DOMAIN chain :
          chain[i].key = chain[j].key /\ chain[i].key # NoName => i = j
    BY <2>1 DEF OneNodePerName
  <2> HIDE DEF b0, chain, new
  <2>5. ASSUME NEW i \in DOMAIN new, NEW j \in DOMAIN new,
               new[i].key = new[j].key, new[i].key # NoName
        PROVE  i = j
    <3>1. \A n \in DOMAIN new : n # 1 =>
            /\ n - 1 \in DOMAIN chain /\ (n - 1) + 1 = n
            /\ new[n] = chain[n - 1]
            /\ new[n].key # name
      <4>1. \A n \in DOMAIN new : n # 1 => n - 1 \in 1 .. Len(chain) /\ (n - 1) + 1 = n
        BY <2>2, <2>3
      <4> QED BY <4>1, <2>1, <2>2, <2>3
    <3>2. new[1].key \in {name, NoName}
      BY <2>2
    <3>3. CASE i = 1 \/ j = 1
      BY <3>1, <3>2, <3>3, <2>5
    <3>4. CASE i # 1 /\ j # 1
      <4>1. i - 1 = j - 1
        BY <3>1, <3>4, <2>4, <2>5
      <4> QED BY <4>1, <3>1, <3>4
    <3> QED BY <3>3, <3>4
  <2>6. table' \in [Buckets -> Seq(Symbol)]
    BY <2>1, <2>2
  <2>7. ASSUME NEW b \in Buckets, NEW i \in DOMAIN table'[b], NEW j \in DOMAIN table'[b],
               table'[b][i].key = table'[b][j].key, table'[b][i].key # NoName
        PROVE  i = j
    <3>1. CASE b = b0
      <4>1. table'[b] = new
        BY <3>1, <2>1
      <4> QED BY <4>1, <2>5, <2>7
    <3>2. CASE b # b0
      <4>1. table'[b] = table[b]
        BY <3>2, <2>1
      <4> QED BY <4>1, <2>7 DEF OneNodePerName
    <3> QED BY <3>1, <3>2
  <2> QED BY <2>6, <2>7 DEF OneNodePerName
<1>4. ASSUME NEW name \in Names, Fault(name)
      PROVE  UNCHANGED table
  BY <1>4 DEF Fault
<1> QED BY <1>1, <1>2, <1>3, <1>4 DEF SymbolTableNext, symbols

(* After a symbol is added the walk finds its address for the name that was  *)
(* stored, and what it found before for every other.                         *)
LEMMA FoundAdded ==
  ASSUME NEW S, table \in [Buckets -> Seq(S)], NEW name \in Names, NEW address,
         NEW stored_name \in {name, NoName}, add_symbol(name, address, stored_name)
  PROVE  \A other \in Names :
           Found(table'[hash_index(other)], other, NoSymbol)
             = IF other = stored_name THEN address
               ELSE Found(table[hash_index(other)], other, NoSymbol)
<1>1. /\ table \in [Buckets -> Seq(S)]
      /\ hash_index(name) \in Buckets
      /\ table' = [table EXCEPT ![hash_index(name)] =
                     Pushed(stored_name, address, table[hash_index(name)])]
  <2>1. table' = [table EXCEPT ![hash_index(name)] =
                    Pushed(stored_name, address, table[hash_index(name)])]
    BY Zenon, AddedSymbol
  <2> QED BY Zenon, <2>1, SymbolIndexType
<1>2. ASSUME NEW other \in Names
      PROVE  Found(table'[hash_index(other)], other, NoSymbol)
               = IF other = stored_name THEN address
                 ELSE Found(table[hash_index(other)], other, NoSymbol)
  <2>1. CASE hash_index(other) = hash_index(name)
    <3>1. table'[hash_index(other)]
            = Pushed(stored_name, address, table[hash_index(name)])
      BY <1>1, <2>1
    <3>2. table[hash_index(name)] \in Seq(S)
      BY <1>1
    <3> QED BY <2>1, <3>1, <3>2, FoundPushed
  <2>2. CASE hash_index(other) # hash_index(name)
    <3>1. table'[hash_index(other)] = table[hash_index(other)]
      BY <1>1, <2>2, SymbolIndexType
    <3>2. other # stored_name
      BY <2>2, SymbolTableAssumption
    <3> QED BY <3>1, <3>2
  <2> QED BY <2>1, <2>2
<1> QED BY <1>2

(* A symbol with its name is in the table as soon as it is added. *)
LEMMA SymbolEnters ==
  ASSUME OneNodePerName, NEW name \in Names, NEW address \in Addresses,
         add_symbol(name, address, name)
  PROVE  AddressOf!EnterNew(name, address)
<1> DEFINE entry == [other \in Names |-> find_symbol(other)]
<1>1. entry' = [entry EXCEPT ![name] = address]
  BY ChainTypes, FoundAdded DEF find_symbol, ChainOf
<1>2. entry[name] = NoSymbol
  BY DEF add_symbol
<1> QED BY <1>1, <1>2 DEF AddressOf!EnterNew, AddressOf!Enter

(* One step of the table is one step of the function it stands for. *)
LEMMA SymbolStepImplements ==
  OneNodePerName /\ [SymbolTableNext]_symbols
    => [AddressOf!FirstNext]_[name \in Names |-> find_symbol(name)]
<1> DEFINE entry == [name \in Names |-> find_symbol(name)]
<1> SUFFICES ASSUME OneNodePerName, [SymbolTableNext]_symbols
             PROVE  AddressOf!FirstNext \/ entry' = entry
  OBVIOUS
<1>1. CASE UNCHANGED table
  BY <1>1 DEF find_symbol, ChainOf
<1>2. CASE destroy_symbol_table
  <2>1. entry' = [name \in Names |-> NoSymbol]
    BY <1>2, SymbolIndexType, FoundNothing
       DEF destroy_symbol_table, EmptyTable, find_symbol, ChainOf
  <2> QED BY <2>1 DEF AddressOf!FirstNext, AddressOf!Clear, AddressOf!Empty
<1>3. ASSUME NEW name \in Names, NEW address \in Addresses,
             NEW stored_name \in {name, NoName}, add_symbol(name, address, stored_name)
      PROVE  AddressOf!FirstNext \/ entry' = entry
  <2>1. CASE stored_name = name
    BY <1>3, <2>1, SymbolEnters DEF AddressOf!FirstNext
  <2>2. CASE stored_name = NoName
    BY <1>3, <2>2, ChainTypes, FoundAdded, SymbolTableAssumption DEF find_symbol, ChainOf
  <2> QED BY <2>1, <2>2
<1>4. ASSUME NEW name \in Names, Fault(name)
      PROVE  UNCHANGED table
  BY <1>4 DEF Fault
<1> QED BY <1>1, <1>2, <1>3, <1>4 DEF SymbolTableNext, symbols

(* Every addition that has its memory is an entry. *)
LEMMA StepMakesSymbol ==
  OneNodePerName /\ [SymbolTableNext]_symbols => [SymbolIsMade]_symbols
  BY SymbolEnters DEF SymbolIsMade

(* The look-up finds the address that a label was first given: defining it   *)
(* again, collisions, and allocations that fail do not change it.            *)
THEOREM SymbolTableCorrect ==
  SymbolTableSpec => FirstDefinitionIsFound /\ []OneNodePerName
<1>1. create_symbol_table => AddressOf!Init
  <2> SUFFICES ASSUME create_symbol_table PROVE AddressOf!Init
    OBVIOUS
  <2>1. \A name \in Names : find_symbol(name) = NoSymbol
    BY SymbolIndexType, FoundNothing DEF create_symbol_table, EmptyTable, find_symbol, ChainOf
  <2> QED BY <2>1 DEF AddressOf!Init, AddressOf!Empty
<1> QED BY <1>1, InitialSymbols, SymbolsKept, SymbolStepImplements, StepMakesSymbol, PTL
        DEF SymbolTableSpec, FirstDefinitionIsFound, AddressOf!FirstSpec
==============================================================================
