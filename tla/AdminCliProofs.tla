---------------------------- MODULE AdminCliProofs ----------------------------
(***************************************************************************)
(* The two threads of the admin tool, the network and the board: what the  *)
(* user is told is true as long as no answer came late, and what is signed *)
(* is sound and clean whatever the network does.  First the edit commands  *)
(* alone: they keep the configuration sound and clean, and show tells the  *)
(* truth about it.  Last, the whole tool implements FilterTable.           *)
(***************************************************************************)
EXTENDS AdminCli, FiniteSetTheorems, TLAPS

Good(c) == SoundFilter(c) /\ Clean(c)

GoodFilter == {c \in Filter : Good(c)}

\* What is in edit and what is in the files the tool wrote.
EditInd == f_curr \in GoodFilter /\ file \in [Names -> GoodFilter \cup {Short}]

-------------------------------------------------------------------------------
(* Records.                                                                  *)

\* A configuration by its fields.
Fields(bw, len, list, ends, items, reply) ==
    [BW |-> bw, Length |-> len, List |-> list,
     dnsItemEndPtr |-> ends, dnsList |-> items, replyType |-> reply]

LEMMA FilterIsFields ==
  ASSUME NEW c \in Filter
  PROVE  c = Fields(c.BW, c.Length, c.List, c.dnsItemEndPtr, c.dnsList, c.replyType)
BY DEF Filter, FilterWith, Fields

LEMMA EntriesAre == Entries = {0, 1}
BY DepthAssumption DEF Entries

LEMMA FieldTypes ==
  ASSUME NEW c \in Filter
  PROVE  /\ c.BW \in [Sections -> {0, 1}]
         /\ c.Length \in [Sections -> {0, 1, 2}]
         /\ c.List \in [AddrSections -> [Entries -> Addr]]
         /\ c.dnsItemEndPtr \in [Entries -> 0 .. ItemBytes]
         /\ c.dnsList \in [Entries -> [ItemIndex -> Byte]]
         /\ c.replyType \in {0, 1}
<1>1. 0 .. FilterDepth = {0, 1, 2}
  BY DepthAssumption
<1> QED
  BY <1>1 DEF Filter, FilterWith

\* What makes a configuration good, field by field.
LEMMA GoodFields ==
  ASSUME NEW bw \in [Sections -> {0, 1}], NEW len \in [Sections -> {0, 1, 2}],
         NEW list \in [AddrSections -> [Entries -> Addr]],
         NEW ends \in [Entries -> 0 .. ItemBytes],
         NEW items \in [Entries -> [ItemIndex -> Byte]], NEW reply \in {0, 1},
         \A i \in Entries, j \in ItemIndex : j < ends[i] => items[i][j] # 0,
         \A x \in AddrSections, i \in Entries : i >= len[x] => list[x][i] = Zero,
         \A i \in Entries : i >= len["dns"] => ends[i] = 0,
         \A i \in Entries, j \in ItemIndex : j >= ends[i] => items[i][j] = 0
  PROVE  Good(Fields(bw, len, list, ends, items, reply))
<1>1. 0 .. FilterDepth = {0, 1, 2}
  BY DepthAssumption
<1>2. Fields(bw, len, list, ends, items, reply) \in Filter
  BY <1>1 DEF Filter, FilterWith, Fields
<1> QED
  BY <1>2 DEF Good, SoundFilter, Clean, Fields

LEMMA GoodParts ==
  ASSUME NEW c \in GoodFilter
  PROVE  /\ c \in Filter
         /\ \A i \in Entries, j \in ItemIndex : j < c.dnsItemEndPtr[i] => c.dnsList[i][j] # 0
         /\ \A x \in AddrSections, i \in Entries : i >= c.Length[x] => c.List[x][i] = Zero
         /\ \A i \in Entries : i >= c.Length["dns"] => c.dnsItemEndPtr[i] = 0
         /\ \A i \in Entries, j \in ItemIndex : j >= c.dnsItemEndPtr[i] => c.dnsList[i][j] = 0
BY DEF GoodFilter, Good, SoundFilter, Clean

LEMMA GoodIn == ASSUME NEW c, Good(c) PROVE c \in GoodFilter
BY DEF GoodFilter, Good, SoundFilter

-------------------------------------------------------------------------------
(* What the commands write.                                                  *)

LEMMA BlankItem == Item(<< >>) = [j \in ItemIndex |-> 0]
BY SizeAssumption DEF Item, ItemIndex

LEMMA ParsedType == ASSUME NEW x \in AddrSections, NEW t \in Typed PROVE Parsed(x, t) \in Addr
<1>1. t.v \in Addr /\ Zero \in Addr /\ bswap_16(t.v) \in Addr
  BY TypedAssumption, ZeroAssumption
<1>2. parse_mac(t) \in Addr /\ parse_ip(t) \in Addr /\ parse_port(t) \in Addr
  BY <1>1 DEF parse_mac, parse_ip, parse_port
<1>3. CASE x \in {"srcMAC", "dstMAC"}
  <2>1. x \notin {"srcIP", "dstIP"} /\ x \notin {"srcPort", "dstPort"}
    BY <1>3
  <2> QED
    BY <1>2, <1>3, <2>1 DEF Parsed
<1>4. CASE x \in {"srcIP", "dstIP"}
  <2>1. x \notin {"srcMAC", "dstMAC"} /\ x \notin {"srcPort", "dstPort"}
    BY <1>4
  <2> QED
    BY <1>2, <1>4, <2>1 DEF Parsed
<1>5. CASE x \in {"srcPort", "dstPort"}
  <2>1. ~(x \in {"srcMAC", "dstMAC"}) /\ ~(x \in {"srcIP", "dstIP"})
    BY <1>5
  <2>2. Parsed(x, t) = parse_port(t)
    BY ONLY <1>5, <2>1, Zenon DEF Parsed
  <2> QED
    BY <1>2, <2>2
<1> QED
  BY <1>3, <1>4, <1>5 DEF AddrSections

LEMMA EmptyIsGood == Good(EmptyFilter)
<1> DEFINE bw == [x \in Sections |-> 0]
           len == [x \in Sections |-> 0]
           list == [x \in AddrSections |-> [i \in Entries |-> Zero]]
           ends == [i \in Entries |-> 0]
           items == [i \in Entries |-> Item(<< >>)]
<1>1. EmptyFilter = Fields(bw, len, list, ends, items, 0)
  BY DEF EmptyFilter, Fields
<1>2. /\ bw \in [Sections -> {0, 1}] /\ len \in [Sections -> {0, 1, 2}]
      /\ list \in [AddrSections -> [Entries -> Addr]]
  BY ZeroAssumption
<1>3. ends \in [Entries -> 0 .. ItemBytes] /\ items \in [Entries -> [ItemIndex -> Byte]]
  BY BlankItem, SizeAssumption DEF Byte
<1>4. /\ \A i \in Entries, j \in ItemIndex : j < ends[i] => items[i][j] # 0
      /\ \A i \in Entries, j \in ItemIndex : j >= ends[i] => items[i][j] = 0
  BY BlankItem, SizeAssumption DEF ItemIndex
<1>5. /\ \A x \in AddrSections, i \in Entries : i >= len[x] => list[x][i] = Zero
      /\ \A i \in Entries : i >= len["dns"] => ends[i] = 0
  OBVIOUS
<1> HIDE DEF bw, len, list, ends, items
<1> QED
  BY <1>1, <1>2, <1>3, <1>4, <1>5, GoodFields

\* An item that holds a text.
LEMMA ItemOfText ==
  ASSUME NEW q \in Seq(Byte \ {0}), Len(q) <= ItemBytes
  PROVE  /\ Item(q) \in [ItemIndex -> Byte] /\ Len(q) \in 0 .. ItemBytes
         /\ \A j \in ItemIndex : j < Len(q) => Item(q)[j] # 0
         /\ \A j \in ItemIndex : j >= Len(q) => Item(q)[j] = 0
<1>1. \A j \in ItemIndex : j < Len(q) => q[j + 1] \in Byte \ {0}
  BY SizeAssumption DEF ItemIndex
<1>2. 0 \in Byte
  BY DEF Byte
<1> QED
  BY <1>1, <1>2, SizeAssumption DEF Item, ItemIndex

LEMMA DefaultIsGood == Good(DefaultFilter)
<1> DEFINE bw == [x \in Sections |-> IF x \in {"srcMAC", "srcIP", "srcPort", "dstPort"} THEN 1 ELSE 0]
           len == [x \in Sections |-> IF x \in {"srcMAC", "dstMAC"} THEN 1 ELSE 2]
           list == [x \in AddrSections |-> [i \in Entries |->
                      IF x \in {"srcMAC", "dstMAC"} /\ i >= 1 THEN Zero ELSE DefaultList[x][i]]]
           ends == [i \in Entries |-> Len(DefaultText[i])]
           items == [i \in Entries |-> Item(DefaultText[i])]
<1>1. DefaultFilter = Fields(bw, len, list, ends, items, 0)
  BY DEF DefaultFilter, Fields
<1>2. /\ bw \in [Sections -> {0, 1}] /\ len \in [Sections -> {0, 1, 2}]
      /\ list \in [AddrSections -> [Entries -> Addr]]
  BY ZeroAssumption, DefaultAssumption
<1>3. \A i \in Entries : DefaultText[i] \in Seq(Byte \ {0}) /\ Len(DefaultText[i]) <= ItemBytes
  BY DefaultAssumption
<1>4. ends \in [Entries -> 0 .. ItemBytes] /\ items \in [Entries -> [ItemIndex -> Byte]]
  BY <1>3, ItemOfText
<1>5. /\ \A i \in Entries, j \in ItemIndex : j < ends[i] => items[i][j] # 0
      /\ \A i \in Entries, j \in ItemIndex : j >= ends[i] => items[i][j] = 0
  BY <1>3, ItemOfText
<1>6. \A x \in AddrSections, i \in Entries : i >= len[x] => list[x][i] = Zero
  BY EntriesAre DEF Sections
<1>7. \A i \in Entries : i >= len["dns"] => ends[i] = 0
  BY EntriesAre DEF Sections
<1> HIDE DEF bw, len, list, ends, items
<1> QED
  BY <1>1, <1>2, <1>4, <1>5, <1>6, <1>7, GoodFields

-------------------------------------------------------------------------------
(* The commands.                                                             *)

\* What a command leaves in every field.
LEMMA AddAddrFields ==
  ASSUME f_curr \in GoodFilter, NEW x, NEW t, AddAddr(x, t)
  PROVE  LET n == f_curr.Length[x]
         IN f_curr' = Fields(f_curr.BW, [f_curr.Length EXCEPT ![x] = (n + 1) % 4],
                             [f_curr.List EXCEPT ![x] = [@ EXCEPT ![n] = Parsed(x, t)]],
                             f_curr.dnsItemEndPtr, f_curr.dnsList, f_curr.replyType)
<1> DEFINE bw == f_curr.BW
           ends == f_curr.dnsItemEndPtr
           items == f_curr.dnsList
           reply == f_curr.replyType
           n == f_curr.Length[x]
           v == Parsed(x, t)
           w == (n + 1) % 4
           len == [f_curr.Length EXCEPT ![x] = w]
           list == [f_curr.List EXCEPT ![x] = [@ EXCEPT ![n] = v]]
<1>1. f_curr' = [[f_curr EXCEPT !.List[x][n] = v] EXCEPT !.Length[x] = w]
  BY DEF AddAddr
<1>2. f_curr = Fields(bw, f_curr.Length, f_curr.List, ends, items, reply)
  BY GoodParts, FilterIsFields
<1>3. [Fields(bw, f_curr.Length, f_curr.List, ends, items, reply) EXCEPT !.List[x][n] = v]
        = Fields(bw, f_curr.Length, list, ends, items, reply)
  BY DEF Fields
<1>4. [Fields(bw, f_curr.Length, list, ends, items, reply) EXCEPT !.Length[x] = w]
        = Fields(bw, len, list, ends, items, reply)
  BY DEF Fields
<1>5. f_curr' = Fields(bw, len, list, ends, items, reply)
  <2> HIDE DEF bw, ends, items, reply, n, v, w, len, list
  <2> QED
    BY <1>1, <1>2, <1>3, <1>4, Zenon
<1> QED
  BY <1>5

LEMMA AddAddrGood ==
  ASSUME f_curr \in GoodFilter, NEW x \in Edited, NEW t \in Typed, AddAddr(x, t)
  PROVE  f_curr' \in GoodFilter
<1> DEFINE bw == f_curr.BW
           ends == f_curr.dnsItemEndPtr
           items == f_curr.dnsList
           reply == f_curr.replyType
           n == f_curr.Length[x]
           v == Parsed(x, t)
           w == (n + 1) % 4
           len == [f_curr.Length EXCEPT ![x] = w]
           list == [f_curr.List EXCEPT ![x] = [@ EXCEPT ![n] = v]]
<1>1. x \in AddrSections /\ x \in Sections /\ x # "dns" /\ "dns" \in Sections
  BY DEF AddAddr, AddrSections, Sections
<1>2. n \in {0, 1} /\ n \in Entries
  BY <1>1, GoodParts, FieldTypes, EntriesAre, DepthAssumption DEF AddAddr
<1>3. w = n + 1
  BY <1>2
<1>4. f_curr' = Fields(bw, len, list, ends, items, reply)
  BY AddAddrFields
<1>5. len \in [Sections -> {0, 1, 2}] /\ list \in [AddrSections -> [Entries -> Addr]]
  BY <1>1, <1>2, <1>3, GoodParts, FieldTypes, ParsedType
<1>6. \A y \in AddrSections, i \in Entries : i >= len[y] => list[y][i] = Zero
  BY <1>1, <1>2, <1>3, GoodParts, FieldTypes, EntriesAre DEF Sections
<1>7. len["dns"] = f_curr.Length["dns"]
  BY <1>1, GoodParts, FieldTypes
<1> HIDE DEF len, list
<1>8. Good(f_curr')
  BY <1>4, <1>5, <1>6, <1>7, GoodParts, FieldTypes, GoodFields
<1> QED
  BY <1>8, GoodIn

LEMMA AddTextFields ==
  ASSUME f_curr \in GoodFilter, NEW q, AddText(q)
  PROVE  LET n == f_curr.Length["dns"]
             v == [j \in ItemIndex |-> IF j < Len(q) THEN q[j + 1] ELSE f_curr.dnsList[n][j]]
         IN f_curr' = Fields(f_curr.BW, [f_curr.Length EXCEPT !["dns"] = (n + 1) % 4], f_curr.List,
                             [f_curr.dnsItemEndPtr EXCEPT ![n] = Len(q)],
                             [f_curr.dnsList EXCEPT ![n] = v], f_curr.replyType)
<1> DEFINE bw == f_curr.BW
           list == f_curr.List
           reply == f_curr.replyType
           n == f_curr.Length["dns"]
           v == [j \in ItemIndex |-> IF j < Len(q) THEN q[j + 1] ELSE f_curr.dnsList[n][j]]
           w == (n + 1) % 4
           len == [f_curr.Length EXCEPT !["dns"] = w]
           ends == [f_curr.dnsItemEndPtr EXCEPT ![n] = Len(q)]
           items == [f_curr.dnsList EXCEPT ![n] = v]
<1>1. f_curr' = Fields(bw, len, list, ends, items, reply)
  <2>1. f_curr' = [[[f_curr EXCEPT !.dnsList[n] = v] EXCEPT !.dnsItemEndPtr[n] = Len(q)]
                      EXCEPT !.Length["dns"] = w]
    BY DEF AddText
  <2>2. f_curr = Fields(bw, f_curr.Length, list, f_curr.dnsItemEndPtr, f_curr.dnsList, reply)
    BY GoodParts, FilterIsFields
  <2>3. [Fields(bw, f_curr.Length, list, f_curr.dnsItemEndPtr, f_curr.dnsList, reply)
            EXCEPT !.dnsList[n] = v]
          = Fields(bw, f_curr.Length, list, f_curr.dnsItemEndPtr, items, reply)
    <3> HIDE DEF n, v
    <3> QED
      BY DEF Fields
  <2>4. [Fields(bw, f_curr.Length, list, f_curr.dnsItemEndPtr, items, reply)
            EXCEPT !.dnsItemEndPtr[n] = Len(q)]
          = Fields(bw, f_curr.Length, list, ends, items, reply)
    <3> HIDE DEF n, items
    <3> QED
      BY DEF Fields
  <2>5. [Fields(bw, f_curr.Length, list, ends, items, reply) EXCEPT !.Length["dns"] = w]
          = Fields(bw, len, list, ends, items, reply)
    <3> HIDE DEF ends, items, w
    <3> QED
      BY DEF Fields
  <2> HIDE DEF bw, ends, items, reply, n, v, w, len, list
  <2> QED
    BY <2>1, <2>2, <2>3, <2>4, <2>5, Zenon
<1> QED
  BY <1>1

LEMMA AddTextGood ==
  ASSUME f_curr \in GoodFilter, NEW q \in Texts, AddText(q)
  PROVE  f_curr' \in GoodFilter
<1> DEFINE bw == f_curr.BW
           list == f_curr.List
           reply == f_curr.replyType
           n == f_curr.Length["dns"]
           v == [j \in ItemIndex |-> IF j < Len(q) THEN q[j + 1] ELSE f_curr.dnsList[n][j]]
           w == (n + 1) % 4
           len == [f_curr.Length EXCEPT !["dns"] = w]
           ends == [f_curr.dnsItemEndPtr EXCEPT ![n] = Len(q)]
           items == [f_curr.dnsList EXCEPT ![n] = v]
<1>1. /\ q \in Seq(Byte \ {0}) /\ Len(q) <= ItemBytes
      /\ "dns" \in Sections /\ \A y \in AddrSections : y \in Sections /\ y # "dns"
  BY TextsAssumption DEF AddText, Sections, AddrSections
<1>2. n \in {0, 1} /\ n \in Entries
  BY <1>1, GoodParts, FieldTypes, EntriesAre, DepthAssumption DEF AddText
<1>3. w = n + 1
  BY <1>2
<1>4. f_curr' = Fields(bw, len, list, ends, items, reply)
  BY AddTextFields
<1>5. Len(q) \in 0 .. ItemBytes /\ \A j \in ItemIndex : j < Len(q) => q[j + 1] \in Byte \ {0}
  BY <1>1, SizeAssumption DEF ItemIndex
\* The item that is written was blank.
<1>6. \A j \in ItemIndex : f_curr.dnsList[n][j] = 0
  <2>1. f_curr.dnsItemEndPtr[n] = 0
    BY <1>2, GoodParts
  <2> QED
    BY <1>2, <2>1, GoodParts, SizeAssumption DEF ItemIndex
<1>7. /\ v \in [ItemIndex -> Byte]
      /\ \A j \in ItemIndex : j < Len(q) => v[j] # 0
      /\ \A j \in ItemIndex : j >= Len(q) => v[j] = 0
  <2>1. v = Item(q)
    BY <1>6 DEF Item
  <2> QED
    BY <1>1, <2>1, ItemOfText
<1> HIDE DEF v, w
<1>8. /\ len \in [Sections -> {0, 1, 2}]
      /\ ends \in [Entries -> 0 .. ItemBytes]
      /\ items \in [Entries -> [ItemIndex -> Byte]]
  <2>0. w \in {0, 1, 2}
    BY <1>2, <1>3
  <2>1. len \in [Sections -> {0, 1, 2}]
    BY <2>0, GoodParts, FieldTypes
  <2>2. ends \in [Entries -> 0 .. ItemBytes]
    BY <1>5, GoodParts, FieldTypes
  <2>3. items \in [Entries -> [ItemIndex -> Byte]]
    BY <1>7, GoodParts, FieldTypes
  <2> QED
    BY <2>1, <2>2, <2>3
<1>9. \A y \in AddrSections, i \in Entries : i >= len[y] => list[y][i] = Zero
  BY <1>1, GoodParts, FieldTypes
<1>10. \A i \in Entries : i >= len["dns"] => ends[i] = 0
  BY <1>1, <1>2, <1>3, GoodParts, FieldTypes, EntriesAre
<1>11. \A i \in Entries, j \in ItemIndex : j < ends[i] => items[i][j] # 0
  BY <1>2, <1>7, GoodParts, FieldTypes
<1>12. \A i \in Entries, j \in ItemIndex : j >= ends[i] => items[i][j] = 0
  BY <1>2, <1>7, GoodParts, FieldTypes
<1> HIDE DEF len, ends, items
<1>13. Good(f_curr')
  BY <1>4, <1>8, <1>9, <1>10, <1>11, <1>12, GoodParts, FieldTypes, GoodFields
<1> QED
  BY <1>13, GoodIn

LEMMA RemoveAddrFields ==
  ASSUME f_curr \in GoodFilter, NEW x, NEW i, RemoveAddr(x, i)
  PROVE  LET n == f_curr.Length[x] - 1
             v == [f_curr.List[x] EXCEPT ![i] = f_curr.List[x][n], ![n] = Zero]
         IN f_curr' = Fields(f_curr.BW, [f_curr.Length EXCEPT ![x] = n],
                             [f_curr.List EXCEPT ![x] = v],
                             f_curr.dnsItemEndPtr, f_curr.dnsList, f_curr.replyType)
<1> DEFINE bw == f_curr.BW
           ends == f_curr.dnsItemEndPtr
           items == f_curr.dnsList
           reply == f_curr.replyType
           n == f_curr.Length[x] - 1
           v == [f_curr.List[x] EXCEPT ![i] = f_curr.List[x][n], ![n] = Zero]
           len == [f_curr.Length EXCEPT ![x] = n]
           list == [f_curr.List EXCEPT ![x] = v]
<1>1. f_curr' = Fields(bw, len, list, ends, items, reply)
  <2>1. f_curr' = [[f_curr EXCEPT !.Length[x] = n] EXCEPT !.List[x] = v]
    BY DEF RemoveAddr
  <2>2. f_curr = Fields(bw, f_curr.Length, f_curr.List, ends, items, reply)
    BY GoodParts, FilterIsFields
  <2>3. [Fields(bw, f_curr.Length, f_curr.List, ends, items, reply) EXCEPT !.Length[x] = n]
          = Fields(bw, len, f_curr.List, ends, items, reply)
    <3> HIDE DEF n
    <3> QED
      BY DEF Fields
  <2>4. [Fields(bw, len, f_curr.List, ends, items, reply) EXCEPT !.List[x] = v]
          = Fields(bw, len, list, ends, items, reply)
    <3> HIDE DEF n, v
    <3> QED
      BY DEF Fields
  <2> HIDE DEF bw, ends, items, reply, n, v, len, list
  <2> QED
    BY <2>1, <2>2, <2>3, <2>4, Zenon
<1> QED
  BY <1>1

LEMMA RemoveAddrGood ==
  ASSUME f_curr \in GoodFilter, NEW x \in Edited, NEW i \in Entries, RemoveAddr(x, i)
  PROVE  f_curr' \in GoodFilter
<1> DEFINE bw == f_curr.BW
           ends == f_curr.dnsItemEndPtr
           items == f_curr.dnsList
           reply == f_curr.replyType
           n == f_curr.Length[x] - 1
           v == [f_curr.List[x] EXCEPT ![i] = f_curr.List[x][n], ![n] = Zero]
           len == [f_curr.Length EXCEPT ![x] = n]
           list == [f_curr.List EXCEPT ![x] = v]
<1>1. x \in AddrSections /\ x \in Sections /\ x # "dns" /\ "dns" \in Sections
  BY DEF RemoveAddr, AddrSections, Sections
<1>2. n \in {0, 1} /\ n \in Entries /\ i <= n
  BY <1>1, GoodParts, FieldTypes, EntriesAre DEF RemoveAddr
<1>4. f_curr' = Fields(bw, len, list, ends, items, reply)
  BY RemoveAddrFields
<1>5. v \in [Entries -> Addr] /\ \A k \in Entries : k >= n => v[k] = Zero
  <2>1. f_curr.List[x] \in [Entries -> Addr]
    BY <1>1, GoodParts, FieldTypes
  <2>2. \A k \in Entries : k > n => f_curr.List[x][k] = Zero /\ k # i
    BY <1>1, <1>2, GoodParts, FieldTypes, EntriesAre
  <2> HIDE DEF n
  <2> QED
    BY <1>2, <2>1, <2>2, ZeroAssumption, EntriesAre
<1> HIDE DEF v
<1>6. len \in [Sections -> {0, 1, 2}] /\ list \in [AddrSections -> [Entries -> Addr]]
  BY <1>1, <1>2, <1>5, GoodParts, FieldTypes
<1>7. \A y \in AddrSections, k \in Entries : k >= len[y] => list[y][k] = Zero
  BY <1>1, <1>2, <1>5, GoodParts, FieldTypes, EntriesAre DEF Sections
<1>8. len["dns"] = f_curr.Length["dns"]
  BY <1>1, GoodParts, FieldTypes
<1> HIDE DEF len, list
<1>9. Good(f_curr')
  BY <1>4, <1>6, <1>7, <1>8, GoodParts, FieldTypes, GoodFields
<1> QED
  BY <1>9, GoodIn

LEMMA RemoveTextFields ==
  ASSUME f_curr \in GoodFilter, NEW i, RemoveText(i)
  PROVE  LET n == f_curr.Length["dns"] - 1
         IN f_curr' = Fields(f_curr.BW, [f_curr.Length EXCEPT !["dns"] = n], f_curr.List,
                        [f_curr.dnsItemEndPtr EXCEPT ![i] = f_curr.dnsItemEndPtr[n], ![n] = 0],
                        [f_curr.dnsList EXCEPT ![i] = f_curr.dnsList[n], ![n] = Item(<< >>)],
                        f_curr.replyType)
<1> DEFINE bw == f_curr.BW
           list == f_curr.List
           reply == f_curr.replyType
           n == f_curr.Length["dns"] - 1
           len == [f_curr.Length EXCEPT !["dns"] = n]
           ends == [f_curr.dnsItemEndPtr EXCEPT ![i] = f_curr.dnsItemEndPtr[n], ![n] = 0]
           items == [f_curr.dnsList EXCEPT ![i] = f_curr.dnsList[n], ![n] = Item(<< >>)]
<1>1. f_curr' = Fields(bw, len, list, ends, items, reply)
  <2>1. f_curr' = [[[f_curr EXCEPT !.Length["dns"] = n] EXCEPT !.dnsList = items]
                      EXCEPT !.dnsItemEndPtr = ends]
    BY DEF RemoveText
  <2>2. f_curr = Fields(bw, f_curr.Length, list, f_curr.dnsItemEndPtr, f_curr.dnsList, reply)
    BY GoodParts, FilterIsFields
  <2> HIDE DEF n, ends, items
  <2>3. [Fields(bw, f_curr.Length, list, f_curr.dnsItemEndPtr, f_curr.dnsList, reply)
            EXCEPT !.Length["dns"] = n]
          = Fields(bw, len, list, f_curr.dnsItemEndPtr, f_curr.dnsList, reply)
    BY DEF Fields
  <2>4. [Fields(bw, len, list, f_curr.dnsItemEndPtr, f_curr.dnsList, reply)
            EXCEPT !.dnsList = items]
          = Fields(bw, len, list, f_curr.dnsItemEndPtr, items, reply)
    BY DEF Fields
  <2>5. [Fields(bw, len, list, f_curr.dnsItemEndPtr, items, reply) EXCEPT !.dnsItemEndPtr = ends]
          = Fields(bw, len, list, ends, items, reply)
    BY DEF Fields
  <2> HIDE DEF bw, reply, len, list
  <2> QED
    BY <2>1, <2>2, <2>3, <2>4, <2>5, Zenon
<1> QED
  BY <1>1

LEMMA RemoveTextGood ==
  ASSUME f_curr \in GoodFilter, NEW i \in Entries, RemoveText(i)
  PROVE  f_curr' \in GoodFilter
<1> DEFINE bw == f_curr.BW
           list == f_curr.List
           reply == f_curr.replyType
           n == f_curr.Length["dns"] - 1
           len == [f_curr.Length EXCEPT !["dns"] = n]
           ends == [f_curr.dnsItemEndPtr EXCEPT ![i] = f_curr.dnsItemEndPtr[n], ![n] = 0]
           items == [f_curr.dnsList EXCEPT ![i] = f_curr.dnsList[n], ![n] = Item(<< >>)]
<1>1. "dns" \in Sections /\ \A y \in AddrSections : y \in Sections /\ y # "dns"
  BY DEF Sections, AddrSections
<1>2. n \in {0, 1} /\ n \in Entries /\ i <= n
  BY <1>1, GoodParts, FieldTypes, EntriesAre DEF RemoveText
<1>3. f_curr' = Fields(bw, len, list, ends, items, reply)
  BY RemoveTextFields
<1>4. \A k \in Entries : k > n => k # i /\ f_curr.dnsItemEndPtr[k] = 0
  BY <1>1, <1>2, GoodParts, FieldTypes, EntriesAre
<1>5. 0 \in 0 .. ItemBytes /\ Item(<< >>) \in [ItemIndex -> Byte]
      /\ \A j \in ItemIndex : Item(<< >>)[j] = 0 /\ ~(j < 0)
  BY BlankItem, SizeAssumption DEF Byte, ItemIndex
<1>6. len \in [Sections -> {0, 1, 2}]
  BY <1>2, GoodParts, FieldTypes
<1> HIDE DEF n
<1>7. ends \in [Entries -> 0 .. ItemBytes]
  BY <1>2, <1>5, GoodParts, FieldTypes
<1>8. items \in [Entries -> [ItemIndex -> Byte]]
  BY <1>2, <1>5, GoodParts, FieldTypes
\* An entry is blank, or the one that was moved, or as before.
<1>9. \A k \in Entries :
        \/ k = n /\ ends[k] = 0 /\ items[k] = Item(<< >>)
        \/ \E m \in Entries : ends[k] = f_curr.dnsItemEndPtr[m] /\ items[k] = f_curr.dnsList[m]
  BY <1>2, GoodParts, FieldTypes
<1>10. \A y \in AddrSections, k \in Entries : k >= len[y] => list[y][k] = Zero
  BY <1>1, GoodParts, FieldTypes
<1>11. \A k \in Entries : k >= len["dns"] => ends[k] = 0
  BY <1>1, <1>2, <1>4, GoodParts, FieldTypes, EntriesAre
<1> HIDE DEF len, ends, items
<1>12. \A k \in Entries, j \in ItemIndex : j < ends[k] => items[k][j] # 0
  BY <1>5, <1>9, GoodParts
<1>13. \A k \in Entries, j \in ItemIndex : j >= ends[k] => items[k][j] = 0
  BY <1>5, <1>9, GoodParts
<1>14. Good(f_curr')
  BY <1>3, <1>6, <1>7, <1>8, <1>10, <1>11, <1>12, <1>13, GoodParts, FieldTypes, GoodFields
<1> QED
  BY <1>14, GoodIn

LEMMA SetReplyFields ==
  ASSUME f_curr \in GoodFilter, NEW b, SetReply(b)
  PROVE  f_curr' = Fields(f_curr.BW, f_curr.Length, f_curr.List, f_curr.dnsItemEndPtr,
                          f_curr.dnsList, b)
<1> DEFINE F(reply) == Fields(f_curr.BW, f_curr.Length, f_curr.List, f_curr.dnsItemEndPtr,
                              f_curr.dnsList, reply)
<1>1. f_curr = F(f_curr.replyType)
  BY GoodParts, FilterIsFields
<1>2. [F(f_curr.replyType) EXCEPT !.replyType = b] = F(b)
  BY DEF Fields
<1>3. f_curr' = F(b)
  <2> HIDE DEF F
  <2> QED
    BY <1>1, <1>2, Zenon DEF SetReply
<1> QED
  BY <1>3

LEMMA SetBWFields ==
  ASSUME f_curr \in GoodFilter, NEW x, NEW b, SetBW(x, b)
  PROVE  f_curr' = Fields([f_curr.BW EXCEPT ![x] = b], f_curr.Length, f_curr.List,
                          f_curr.dnsItemEndPtr, f_curr.dnsList, f_curr.replyType)
<1> DEFINE F(bw) == Fields(bw, f_curr.Length, f_curr.List, f_curr.dnsItemEndPtr,
                           f_curr.dnsList, f_curr.replyType)
           bw == [f_curr.BW EXCEPT ![x] = b]
<1>1. f_curr = F(f_curr.BW)
  BY GoodParts, FilterIsFields
<1>2. [F(f_curr.BW) EXCEPT !.BW[x] = b] = F(bw)
  BY DEF Fields
<1>3. f_curr' = F(bw)
  <2> HIDE DEF F, bw
  <2> QED
    BY <1>1, <1>2, Zenon DEF SetBW
<1> QED
  BY <1>3

LEMMA SetGood ==
  ASSUME f_curr \in GoodFilter, NEW b \in {0, 1},
         (\E x \in Edited : SetBW(x, b)) \/ SetReply(b)
  PROVE  f_curr' \in GoodFilter
<1> DEFINE F(bw, reply) == Fields(bw, f_curr.Length, f_curr.List, f_curr.dnsItemEndPtr,
                                  f_curr.dnsList, reply)
<1>2. PICK bw \in [Sections -> {0, 1}], reply \in {0, 1} : f_curr' = F(bw, reply)
  <2>1. CASE SetReply(b)
    BY <2>1, SetReplyFields, GoodParts, FieldTypes
  <2>2. ASSUME NEW x \in Edited, SetBW(x, b)
        PROVE  \E bw \in [Sections -> {0, 1}], reply \in {0, 1} : f_curr' = F(bw, reply)
    <3> DEFINE bw == [f_curr.BW EXCEPT ![x] = b]
    <3>1. bw \in [Sections -> {0, 1}] /\ f_curr.replyType \in {0, 1}
      BY GoodParts, FieldTypes
    <3> QED
      BY <2>2, <3>1, SetBWFields
  <2> QED
    BY <2>1, <2>2
<1>3. Good(f_curr')
  BY <1>2, GoodParts, FieldTypes, GoodFields
<1> QED
  BY <1>3, GoodIn

\* Every command keeps what is in edit and in the files good.
LEMMA EditStep == ASSUME EditInd, Edit PROVE EditInd'
<1> USE DEF EditInd
<1>1. ASSUME NEW x \in Edited, NEW t \in Typed, AddAddr(x, t) PROVE EditInd'
  BY <1>1, AddAddrGood DEF AddAddr
<1>2. ASSUME NEW x \in Edited, NEW i \in Entries, RemoveAddr(x, i) PROVE EditInd'
  BY <1>2, RemoveAddrGood DEF RemoveAddr
<1>3. ASSUME NEW q \in Texts, AddText(q) PROVE EditInd'
  BY <1>3, AddTextGood DEF AddText
<1>4. ASSUME NEW i \in Entries, RemoveText(i) PROVE EditInd'
  BY <1>4, RemoveTextGood DEF RemoveText
<1>5. ASSUME NEW x \in Edited, NEW b \in {0, 1}, SetBW(x, b) PROVE EditInd'
  BY <1>5, SetGood DEF SetBW
<1>6. ASSUME NEW b \in {0, 1}, SetReply(b) PROVE EditInd'
  BY <1>6, SetGood DEF SetReply
<1>7. ASSUME NEW n \in Names, Save(n) PROVE EditInd'
  BY <1>7 DEF Save
<1>8. ASSUME NEW n \in Names, Load(n) PROVE EditInd'
  BY <1>8 DEF Load
<1> QED
  BY <1>1, <1>2, <1>3, <1>4, <1>5, <1>6, <1>7, <1>8 DEF Edit
-------------------------------------------------------------------------------
(* What show prints.                                                         *)

Among(c, p, x) == IF x = "dns"
                  THEN \E q \in Printed(c, x) : \E o \in 0 .. PktBytes :
                          /\ o + Cardinality(DOMAIN q) <= PayloadEnd(p)
                          /\ \A j \in DOMAIN q : p.dnsPkt[o + j] = q[j]
                  ELSE p.addr[x] \in Printed(c, x)

\* What is printed of a domain item has as many bytes as its end pointer says.
LEMMA PrintedText ==
  ASSUME NEW c \in Filter, NEW i \in Entries,
         NEW q, q = [j \in 0 .. c.dnsItemEndPtr[i] - 1 |-> c.dnsList[i][j]]
  PROVE  /\ Cardinality(DOMAIN q) = c.dnsItemEndPtr[i]
         /\ DOMAIN q = {j \in ItemIndex : j < c.dnsItemEndPtr[i]}
         /\ \A j \in DOMAIN q : q[j] = c.dnsList[i][j]
<1>1. c.dnsItemEndPtr[i] \in 0 .. ItemBytes
  BY FieldTypes
<1>2. DOMAIN q = 0 .. c.dnsItemEndPtr[i] - 1
  OBVIOUS
<1>3. Cardinality(0 .. c.dnsItemEndPtr[i] - 1) = c.dnsItemEndPtr[i]
  <2> DEFINE e == c.dnsItemEndPtr[i]
  <2>1. e \in Nat /\ 0 \in Int /\ e - 1 \in Int
    BY <1>1, SizeAssumption
  <2>2. Cardinality(0 .. e - 1) = IF 0 > e - 1 THEN 0 ELSE (e - 1) - 0 + 1
    <3> HIDE DEF e
    <3> QED
      BY <2>1, FS_Interval
  <2> HIDE DEF e
  <2>3. Cardinality(0 .. e - 1) = e
    BY <2>1, <2>2
  <2> QED
    BY <2>3 DEF e
<1>4. 0 .. c.dnsItemEndPtr[i] - 1 = {j \in ItemIndex : j < c.dnsItemEndPtr[i]}
  BY <1>1, SizeAssumption DEF ItemIndex
<1> QED
  BY <1>2, <1>3, <1>4

\* A packet is among the entries printed exactly when the board finds it listed.
LEMMA AmongIsHit ==
  ASSUME NEW c \in Filter, NEW p, NEW x \in Sections
  PROVE  Among(c, p, x) <=> Hit(c, p, x)
<1>1. CASE x # "dns"
  BY <1>1 DEF Among, Printed, Hit, Listed
<1>2. CASE x = "dns"
  <2> DEFINE T(i) == [j \in 0 .. c.dnsItemEndPtr[i] - 1 |-> c.dnsList[i][j]]
             In(q, o) == /\ o + Cardinality(DOMAIN q) <= PayloadEnd(p)
                         /\ \A j \in DOMAIN q : p.dnsPkt[o + j] = q[j]
  <2>1. Printed(c, x) = {T(i) : i \in {k \in Entries : k < c.Length["dns"]}}
    BY <1>2 DEF Printed
  <2>2. Among(c, p, x) <=> \E q \in Printed(c, x) : \E o \in 0 .. PktBytes : In(q, o)
    BY <1>2 DEF Among
  <2>3. ASSUME NEW i \in Entries, NEW o \in 0 .. PktBytes
        PROVE  In(T(i), o) <=> o + c.dnsItemEndPtr[i] <= PayloadEnd(p) /\ OccursAt(c, p, i, o)
    <3> DEFINE q == T(i)
    <3>1. /\ Cardinality(DOMAIN q) = c.dnsItemEndPtr[i]
          /\ DOMAIN q = {j \in ItemIndex : j < c.dnsItemEndPtr[i]}
          /\ \A j \in DOMAIN q : q[j] = c.dnsList[i][j]
      <4> HIDE DEF q
      <4>1. q = [j \in 0 .. c.dnsItemEndPtr[i] - 1 |-> c.dnsList[i][j]]
        BY DEF q
      <4> QED
        BY <4>1, PrintedText
    <3> HIDE DEF q
    <3>2. In(q, o) <=> o + c.dnsItemEndPtr[i] <= PayloadEnd(p) /\ OccursAt(c, p, i, o)
      BY <3>1 DEF OccursAt
    <3> QED
      BY <3>2 DEF q
  <2>4. Hit(c, p, x) <=> \E i \in Entries : i < c.Length["dns"] /\ \E o \in 0 .. PktBytes :
                            o + c.dnsItemEndPtr[i] <= PayloadEnd(p) /\ OccursAt(c, p, i, o)
    BY <1>2 DEF Hit, DomainListed, Contains
  <2> HIDE DEF T, In
  <2>5. (\E q \in Printed(c, x) : \E o \in 0 .. PktBytes : In(q, o))
          <=> \E i \in Entries : i < c.Length["dns"] /\ \E o \in 0 .. PktBytes : In(T(i), o)
    BY <2>1
  <2> QED
    BY <2>2, <2>3, <2>4, <2>5
<1> QED
  BY <1>1, <1>2

LEMMA ExpectedIsAccepted ==
  ASSUME NEW c \in Filter, NEW p, NEW x \in Sections
  PROVE  Expected(c, p, x) <=> Accepts(c, p, x)
<1>1. c.Length[x] \in {0, 1, 2} /\ c.BW[x] \in {0, 1}
  BY FieldTypes
<1>2. c.Length[x] = 0 => ~Hit(c, p, x)
  BY EntriesAre DEF Hit, Listed, DomainListed
<1>3. Expected(c, p, x) <=> CASE Headline(c, x) = "Whitelisted" -> Among(c, p, x)
                              [] Headline(c, x) = "Blacklisted" -> ~Among(c, p, x)
                              [] Headline(c, x) = "Block ALL"   -> FALSE
                              [] Headline(c, x) = "Allow ALL"   -> TRUE
  BY Zenon DEF Expected, Among
<1>4. CASE c.Length[x] > 0 /\ c.BW[x] = 1
  <2>1. Headline(c, x) = "Whitelisted"
    BY <1>4 DEF Headline
  <2>2. Headline(c, x) # "Blacklisted" /\ Headline(c, x) # "Block ALL" /\ Headline(c, x) # "Allow ALL"
    BY <2>1
  <2>3. Expected(c, p, x) <=> Among(c, p, x)
    BY ONLY <1>3, <2>1, <2>2
  <2> QED
    BY <1>4, <2>3, AmongIsHit DEF Accepts
<1>5. CASE c.Length[x] > 0 /\ c.BW[x] = 0
  <2>1. Headline(c, x) = "Blacklisted"
    BY <1>5 DEF Headline
  <2>2. Headline(c, x) # "Whitelisted" /\ Headline(c, x) # "Block ALL" /\ Headline(c, x) # "Allow ALL"
    BY <2>1
  <2>3. Expected(c, p, x) <=> ~Among(c, p, x)
    BY ONLY <1>3, <2>1, <2>2
  <2> QED
    BY <1>5, <2>3, AmongIsHit DEF Accepts
<1>6. CASE c.Length[x] = 0 /\ c.BW[x] = 1
  <2>1. Headline(c, x) = "Block ALL"
    BY <1>6 DEF Headline
  <2>2. Headline(c, x) # "Whitelisted" /\ Headline(c, x) # "Blacklisted" /\ Headline(c, x) # "Allow ALL"
    BY <2>1
  <2>3. Expected(c, p, x) <=> FALSE
    BY ONLY <1>3, <2>1, <2>2
  <2> QED
    BY <1>6, <1>2, <2>3 DEF Accepts
<1>7. CASE c.Length[x] = 0 /\ c.BW[x] = 0
  <2>1. Headline(c, x) = "Allow ALL"
    BY <1>7 DEF Headline
  <2>2. Headline(c, x) # "Whitelisted" /\ Headline(c, x) # "Blacklisted" /\ Headline(c, x) # "Block ALL"
    BY <2>1
  <2>3. Expected(c, p, x) <=> TRUE
    BY ONLY <1>3, <2>1, <2>2
  <2> QED
    BY <1>7, <1>2, <2>3 DEF Accepts
<1> QED
  BY <1>1, <1>4, <1>5, <1>6, <1>7

-------------------------------------------------------------------------------
(* The edit commands alone.                                                  *)

LEMMA EditIndImplies == EditInd => SignedSound /\ AlwaysClean /\ ShownIsJudged
<1> SUFFICES ASSUME EditInd PROVE SignedSound /\ AlwaysClean /\ ShownIsJudged
  OBVIOUS
<1>1. f_curr \in GoodFilter /\ \A n \in Names : file[n] # Short => file[n] \in GoodFilter
  BY DEF EditInd
<1>2. SignedSound /\ AlwaysClean
  BY <1>1 DEF SignedSound, AlwaysClean, GoodFilter, Good
<1>3. ShownIsJudged
  BY <1>1, EditedAssumption, ExpectedIsAccepted DEF ShownIsJudged, GoodFilter
<1> QED
  BY <1>2, <1>3

\* Whatever the user edits, saves and loads, in whatever order, the configuration in
\* edit and every file the tool wrote are sound and clean: for any addresses, texts,
\* file names and item size.
THEOREM EditInvariance == EditSpec => []EditInd
<1>1. EditInit => EditInd
  BY DefaultIsGood, GoodIn DEF EditInit, EditInd
<1>2. EditInd /\ [Edit]_editvars => EditInd'
  <2> SUFFICES ASSUME EditInd, [Edit]_editvars PROVE EditInd'
    OBVIOUS
  <2>1. CASE Edit
    BY <2>1, EditStep
  <2>2. CASE UNCHANGED editvars
    BY <2>2 DEF editvars, EditInd
  <2> QED
    BY <2>1, <2>2
<1> QED
  BY <1>1, <1>2, PTL DEF EditSpec

-------------------------------------------------------------------------------
(* Both threads.                                                             *)

Pay == {<< >>} \cup {p.dnsPkt : p \in Packets} \cup {DNSHeader(p) : p \in Packets}

\* Frames on their way to the board, and to the tool.
OutFrame == [to : {"admin", "probe", "other"}, cfg : GoodFilter, id : Nat,
             pkt : {<< >>} \cup {<<p>> : p \in Packets}]
InFrame == [src : {"random", "zero", "query", "normal"}, cfg : GoodFilter, s : Nat, id : Nat,
            pay : Pay]
Buffer == [head : InFrame, tail : InFrame]

-------------------------------------------------------------------------------
(* The parts of the inductive invariant.                                     *)

Types == /\ wire \in Seq(OutFrame) /\ rx \in Seq(InFrame)
         /\ recv_pkt_buf \in Buffer /\ probe_pkt_buf \in Buffer /\ pr \in Buffer /\ seen \in Buffer
         /\ board \in GoodFilter /\ want \in GoodFilter
         /\ counted \in Nat /\ probes \in Nat
         /\ \A n \in DOMAIN wire : wire[n].to = "other" => \E p \in Packets : wire[n].pkt = <<p>>

\* The receiver has an answer, and copies it.
Receiving == rpc \in {"copy", "copy2", "raise"}

\* What the receiver thread has in its hands.
Receiver == /\ rpc = "fill" => rx # << >> /\ recv_pkt_buf.head = rx[1]
            /\ Receiving => recv_pkt_buf.head = recv_pkt_buf.tail /\ recv_pkt_buf.head.src = "query"
            /\ rpc \in {"copy2", "raise"} => probe_pkt_buf.head = recv_pkt_buf.head
            /\ rpc = "raise" => probe_pkt_buf.tail = recv_pkt_buf.tail

\* An answer is on its way at one place only, and only while it is waited for.
OnWire == \E n \in DOMAIN wire : wire[n].to = "probe"
InSocket == \E n \in DOMAIN rx : rx[n].src = "query"

OnePlace ==
    /\ OnWire => pc = "wait" /\ ~probe_reply_received /\ ~InSocket /\ ~Receiving
    /\ InSocket => pc = "wait" /\ ~probe_reply_received /\ ~Receiving
    /\ Receiving => pc = "wait" /\ ~probe_reply_received
    /\ \A m, n \in DOMAIN wire : wire[m].to = "probe" /\ wire[n].to = "probe" => m = n
    /\ \A m, n \in DOMAIN rx : rx[m].src = "query" /\ rx[n].src = "query" => m = n

\* It is the answer to the last probe, and what is parsed is that answer.
Ids ==
    /\ \A n \in DOMAIN wire : wire[n].to = "probe" => wire[n].id = probes
    /\ \A n \in DOMAIN rx : rx[n].src = "query" => rx[n].id = probes
    /\ Receiving => recv_pkt_buf.head.id = probes
    /\ pc \in {"wait", "parse"} /\ probe_reply_received
         => probe_pkt_buf.head.id = probes /\ probe_pkt_buf.tail.id = probes
    /\ pc = "parse" => probe_reply_received /\ pr.head = probe_pkt_buf.head
    /\ pc = "wait" => pr = Whole(ZeroMemory)
    /\ pr # Whole(ZeroMemory) /\ pc # "parse" => pr.head.id = probes /\ pr.tail.id = probes

NoAdmin == \A n \in DOMAIN wire : wire[n].to # "admin"

\* No configuration follows a probe, so that an answer tells what the board holds.
Confirms ==
    /\ \A m, n \in DOMAIN wire : wire[m].to = "probe" /\ wire[n].to = "admin" => n < m
    /\ \A n \in DOMAIN rx : rx[n].src = "query" => rx[n].cfg = board /\ NoAdmin
    /\ Receiving => recv_pkt_buf.head.cfg = board /\ NoAdmin
    /\ pc \in {"wait", "parse"} /\ probe_reply_received
         => probe_pkt_buf.head.cfg = board /\ probe_pkt_buf.tail.cfg = board /\ NoAdmin
    /\ pc = "prompt" /\ verdict = "successful" /\ Answered => board = want /\ NoAdmin

\* A normal frame carries what the board sent on; expect_receive has looked at one.
IsSent(fr) == fr.src = "normal" => fr.pay \in forwarded

Looked ==
    /\ \A n \in DOMAIN rx : IsSent(rx[n])
    /\ IsSent(recv_pkt_buf.head) /\ IsSent(recv_pkt_buf.tail)
    /\ IsSent(seen.head) /\ IsSent(seen.tail)
    /\ pc \in {"look", "look2"} => verdict = "none"
    /\ pc = "look2" => seen.head.src = "normal"
    /\ verdict = "received" => seen.head.src = "normal" /\ seen.tail.pay = payload

CliInd == /\ EditInd /\ Types /\ Receiver /\ Looked
          /\ ~late => OnePlace /\ Ids /\ Confirms
-------------------------------------------------------------------------------
(* Sequences.                                                                *)

LEMMA Appended ==
  ASSUME NEW S, NEW q \in Seq(S), NEW e \in S
  PROVE  /\ Append(q, e) \in Seq(S)
         /\ \A n \in DOMAIN q : n \in DOMAIN Append(q, e) /\ Append(q, e)[n] = q[n]
                                /\ n < Len(q) + 1
         /\ Append(q, e)[Len(q) + 1] = e
         /\ \A n \in DOMAIN Append(q, e) : n \in DOMAIN q \/ n = Len(q) + 1
OBVIOUS

LEMMA HeadTaken ==
  ASSUME NEW S, NEW q \in Seq(S), q # << >>
  PROVE  /\ Tail(q) \in Seq(S)
         /\ 1 \in DOMAIN q /\ Head(q) = q[1] /\ Head(q) \in S
         /\ \A n \in DOMAIN Tail(q) : /\ n \in Nat /\ n >= 1
                                     /\ n + 1 \in DOMAIN q /\ Tail(q)[n] = q[n + 1]
<1>1. Len(q) \in Nat /\ Len(q) >= 1 /\ DOMAIN q = 1 .. Len(q)
  OBVIOUS
<1>2. Tail(q) \in Seq(S) /\ Head(q) = q[1] /\ Len(Tail(q)) = Len(q) - 1
  BY <1>1
<1> QED
  BY <1>1, <1>2

-------------------------------------------------------------------------------
(* Frames and buffers.                                                       *)

LEMMA FrameTypes ==
  /\ ZeroMemory \in InFrame /\ Whole(ZeroMemory) \in Buffer
  /\ \A pay \in Pay : Own(pay) \in InFrame
  /\ \A c \in GoodFilter : AdminFrame(c) \in OutFrame
  /\ \A n \in Nat : ProbeFrame(n) \in OutFrame
  /\ \A p \in Packets : DataFrame(p) \in OutFrame
  /\ \A c \in GoodFilter, n, id \in Nat : Frame("query", c, n, id, << >>) \in InFrame
  /\ \A pay \in Pay : Frame("normal", EmptyFilter, 0, 0, pay) \in InFrame
<1>1. EmptyFilter \in GoodFilter
  BY EmptyIsGood, GoodIn
<1>2. << >> \in Pay
  BY DEF Pay
<1> QED
  BY <1>1, <1>2 DEF ZeroMemory, Whole, Own, AdminFrame, ProbeFrame, DataFrame, Frame,
                    InFrame, OutFrame, Buffer

\* Even an answer of which the halves come from two frames is a good configuration.
LEMMA SeenGood == ASSUME NEW b \in Buffer PROVE Seen(b) \in GoodFilter
<1> DEFINE h == b.head.cfg
           t == b.tail.cfg
           bw == [x \in Sections |-> IF x = "dns" THEN t.BW[x] ELSE h.BW[x]]
           len == [x \in Sections |-> IF x = "dns" THEN t.Length[x] ELSE h.Length[x]]
<1>1. h \in GoodFilter /\ t \in GoodFilter
  BY DEF Buffer, InFrame
<1>2. Seen(b) = Fields(bw, len, h.List, t.dnsItemEndPtr, t.dnsList, t.replyType)
  BY DEF Seen, Fields
<1> HIDE DEF h, t
<1>3. bw \in [Sections -> {0, 1}] /\ len \in [Sections -> {0, 1, 2}]
  BY <1>1, GoodParts, FieldTypes
<1>4. "dns" \in Sections /\ len["dns"] = t.Length["dns"]
  BY DEF Sections
<1>5. \A x \in AddrSections : len[x] = h.Length[x]
  BY DEF Sections, AddrSections
<1> HIDE DEF bw, len
<1>6. /\ h.List \in [AddrSections -> [Entries -> Addr]]
      /\ t.dnsItemEndPtr \in [Entries -> 0 .. ItemBytes]
      /\ t.dnsList \in [Entries -> [ItemIndex -> Byte]] /\ t.replyType \in {0, 1}
  BY <1>1, GoodParts, FieldTypes
<1>7. /\ \A i \in Entries, j \in ItemIndex : j < t.dnsItemEndPtr[i] => t.dnsList[i][j] # 0
      /\ \A x \in AddrSections, i \in Entries : i >= len[x] => h.List[x][i] = Zero
      /\ \A i \in Entries : i >= len["dns"] => t.dnsItemEndPtr[i] = 0
      /\ \A i \in Entries, j \in ItemIndex : j >= t.dnsItemEndPtr[i] => t.dnsList[i][j] = 0
  BY <1>1, <1>4, <1>5, GoodParts
<1>8. Good(Fields(bw, len, h.List, t.dnsItemEndPtr, t.dnsList, t.replyType))
  BY <1>3, <1>6, <1>7, GoodFields
<1> QED
  BY <1>2, <1>8, GoodIn

\* A whole answer is read as it was sent.
LEMMA SeenWhole ==
  ASSUME NEW b \in Buffer, b.head.cfg = b.tail.cfg
  PROVE  Seen(b) = b.head.cfg
<1> DEFINE h == b.head.cfg
<1>1. h \in Filter
  BY DEF Buffer, InFrame, GoodFilter
<1>2. Seen(b) = Fields([x \in Sections |-> h.BW[x]], [x \in Sections |-> h.Length[x]],
                       h.List, h.dnsItemEndPtr, h.dnsList, h.replyType)
  BY DEF Seen, Fields
<1> HIDE DEF h
<1>3. h.BW = [x \in Sections |-> h.BW[x]] /\ h.Length = [x \in Sections |-> h.Length[x]]
  BY <1>1, FieldTypes
<1>4. h = Fields(h.BW, h.Length, h.List, h.dnsItemEndPtr, h.dnsList, h.replyType)
  BY <1>1, FilterIsFields
<1> QED
  BY <1>2, <1>3, <1>4 DEF h
-------------------------------------------------------------------------------
(* What is in edit, in the files and in frames stays good.                   *)

\* What a command sends, and what the board sends, is added to the socket.
LEMMA SentTypes ==
  ASSUME Types, NEW fr \in OutFrame, NEW pay \in Pay, Send(fr, pay),
         fr.to = "other" => \E p \in Packets : fr.pkt = <<p>>
  PROVE  /\ wire' \in Seq(OutFrame) /\ rx' \in Seq(InFrame)
         /\ \A n \in DOMAIN wire' : wire'[n].to = "other" => \E p \in Packets : wire'[n].pkt = <<p>>
<1>1. wire' = Append(wire, fr) /\ (rx' = rx \/ rx' = Append(rx, Own(pay)))
  BY DEF Send
<1>2. rx' \in Seq(InFrame)
  BY <1>1, FrameTypes, Appended DEF Types
<1>3. \A n \in DOMAIN wire' : wire'[n] = fr \/ (n \in DOMAIN wire /\ wire'[n] = wire[n])
  BY <1>1, Appended DEF Types
<1> QED
  BY <1>1, <1>2, <1>3, Appended DEF Types

\* The configuration the prompt's thread goes on with after a probe.
LEMMA ReturnTypes ==
  ASSUME f_curr \in GoodFilter, NEW c \in GoodFilter, Return(c)
  PROVE  f_curr' \in GoodFilter
BY DEF Return

\* What the board does with the frame at the head of the wire, and what it sends.
LEMMA BoardSends ==
  ASSUME Types, Board
  PROVE  LET fr == Head(wire)
         IN /\ fr.to = "admin" => board' = fr.cfg /\ UNCHANGED <<rx, counted, forwarded>>
            /\ fr.to = "probe"
                 => /\ Frame("query", board, counted, fr.id, << >>) \in InFrame
                    /\ \/ rx' = rx
                       \/ rx' = Append(rx, Frame("query", board, counted, fr.id, << >>))
                    /\ UNCHANGED <<board, counted, forwarded>>
            /\ fr.to = "other"
                 => /\ counted' = counted + 1 /\ UNCHANGED board
                    /\ \/ UNCHANGED <<rx, forwarded>>
                       \/ \E pay \in Pay :
                            /\ Frame("normal", EmptyFilter, 0, 0, pay) \in InFrame
                            /\ \/ rx' = rx
                               \/ rx' = Append(rx, Frame("normal", EmptyFilter, 0, 0, pay))
                            /\ forwarded' = forwarded \cup {pay}
            /\ fr.to \in {"admin", "probe", "other"}
<1> DEFINE fr == Head(wire)
<1>1. /\ fr \in OutFrame /\ fr.to \in {"admin", "probe", "other"}
      /\ fr.to = "other" => \E p \in Packets : fr.pkt = <<p>>
  <2>1. wire # << >>
    BY DEF Board
  <2>2. fr \in OutFrame /\ fr = wire[1] /\ 1 \in DOMAIN wire
    BY <2>1, HeadTaken DEF Types
  <2>3. fr.to \in {"admin", "probe", "other"}
    BY <2>2 DEF OutFrame
  <2> QED
    BY <2>2, <2>3 DEF Types
<1>2. Frame("query", board, counted, fr.id, << >>) \in InFrame
  BY <1>1, FrameTypes DEF Types, OutFrame
<1> DEFINE a == Answer(board, fr.pkt[1])
<1>3. fr.to = "other" => a \in Pay /\ Frame("normal", EmptyFilter, 0, 0, a) \in InFrame
  <2>1. fr.to = "other" => a \in Pay
    BY <1>1 DEF Answer, Pay
  <2> QED
    BY <2>1, FrameTypes
<1>4. \/ fr.to = "admin" /\ board' = fr.cfg /\ UNCHANGED <<rx, counted, forwarded>>
      \/ /\ fr.to = "probe" /\ Deliver(Frame("query", board, counted, fr.id, << >>))
         /\ UNCHANGED <<board, counted, forwarded>>
      \/ /\ fr.to = "other" /\ counted' = counted + 1 /\ UNCHANGED board
         /\ \/ Deliver(Frame("normal", EmptyFilter, 0, 0, a)) /\ forwarded' = forwarded \cup {a}
            \/ UNCHANGED <<rx, forwarded>>
  BY DEF Board, fpga
<1> HIDE DEF fr, a
<1>5. \A e : Deliver(e) => rx' = rx \/ rx' = Append(rx, e)
  BY DEF Deliver
<1>6. CASE fr.to = "admin"
  BY <1>4, <1>6 DEF fr
<1>7. CASE fr.to = "probe"
  BY <1>2, <1>4, <1>5, <1>7 DEF fr
<1>8. CASE fr.to = "other"
  BY <1>3, <1>4, <1>5, <1>8 DEF fr
<1> QED
  BY <1>1, <1>6, <1>7, <1>8 DEF fr

LEMMA TypesStep == ASSUME CliInd, Next PROVE EditInd' /\ Types'
<1> USE DEF CliInd, editvars, probing, testing, prompt, buffers, ending, net, fpga, history
<1>1. CASE EditCommand
  <2>1. EditInd'
    BY <1>1, EditStep DEF EditCommand
  <2> QED
    BY <1>1, <2>1 DEF EditCommand, Types
<1>2. CASE ProbeCommand \/ QuitCommand
  BY <1>2 DEF ProbeCommand, QuitCommand, EditInd, Types
<1>3. ASSUME NEW c \in GoodFilter, SendConfig(c) PROVE EditInd' /\ Types'
  <2>1. EditInd'
    BY <1>3, ScratchAssumption DEF SendConfig, EditInd
  <2>2. AdminFrame(c) \in OutFrame /\ << >> \in Pay /\ AdminFrame(c).to # "other"
    BY FrameTypes DEF Pay, AdminFrame
  <2>3. /\ wire' \in Seq(OutFrame) /\ rx' \in Seq(InFrame)
        /\ \A n \in DOMAIN wire' : wire'[n].to = "other" => \E p \in Packets : wire'[n].pkt = <<p>>
    BY <1>3, <2>2, SentTypes DEF SendConfig
  <2> QED
    BY <1>3, <2>1, <2>3 DEF SendConfig, Types
<1>4. CASE ApplyCommand
  BY <1>3, <1>4 DEF ApplyCommand, EditInd
<1>5. CASE TestCommand
  <2>1. \A c \in TestFilters : c \in GoodFilter
    BY ConfigAssumption, GoodIn DEF Good
  <2> QED
    BY <1>3, <1>5, <2>1 DEF TestCommand
<1>6. CASE probe_fpga
  <2>1. ProbeFrame(probes + 1) \in OutFrame /\ << >> \in Pay /\ ProbeFrame(probes + 1).to # "other"
    BY FrameTypes DEF Pay, ProbeFrame, Types
  <2>2. /\ wire' \in Seq(OutFrame) /\ rx' \in Seq(InFrame)
        /\ \A n \in DOMAIN wire' : wire'[n].to = "other" => \E p \in Packets : wire'[n].pkt = <<p>>
    BY <1>6, <2>1, SentTypes DEF probe_fpga
  <2> QED
    BY <1>6, <2>2, FrameTypes DEF probe_fpga, Types, EditInd
<1>7. CASE TimeOut
  <2>1. f_curr' \in GoodFilter
    BY <1>7, EmptyIsGood, GoodIn, ReturnTypes DEF TimeOut, EditInd
  <2> QED
    BY <1>7, <2>1 DEF TimeOut, Types, EditInd
<1>8. CASE ParseHead
  BY <1>8 DEF ParseHead, Types, EditInd, Buffer
<1>9. CASE ParseTail
  <2> DEFINE b == [pr EXCEPT !.tail = probe_pkt_buf.tail]
  <2>1. b \in Buffer
    BY DEF Types, Buffer
  <2>2. pr' = b /\ Return(Seen(b))
    BY <1>9 DEF ParseTail
  <2> HIDE DEF b
  <2>3. f_curr' \in GoodFilter
    BY <2>1, <2>2, SeenGood, ReturnTypes DEF EditInd
  <2> QED
    BY <1>9, <2>1, <2>2, <2>3 DEF ParseTail, Types, EditInd
<1>10. ASSUME NEW p \in Packets, TestPacket(p) PROVE EditInd' /\ Types'
  <2>1. DataFrame(p) \in OutFrame /\ p.dnsPkt \in Pay /\ DataFrame(p).pkt = <<p>>
    BY FrameTypes DEF Pay, DataFrame
  <2>2. /\ wire' \in Seq(OutFrame) /\ rx' \in Seq(InFrame)
        /\ \A n \in DOMAIN wire' : wire'[n].to = "other" => \E r \in Packets : wire'[n].pkt = <<r>>
    BY <1>10, <2>1, SentTypes DEF TestPacket
  <2> QED
    BY <1>10, <2>2, FrameTypes DEF TestPacket, Types, EditInd
<1>11. CASE LookHead
  BY <1>11 DEF LookHead, Types, EditInd, Buffer
<1>12. CASE LookTail
  BY <1>12 DEF LookTail, Types, EditInd, Buffer
<1>13. CASE CloseSocket \/ RaiseShutdown \/ Join
  BY <1>13 DEF CloseSocket, RaiseShutdown, Join, Types, EditInd
<1>14. CASE RecvHead
  BY <1>14, HeadTaken DEF RecvHead, Types, EditInd, Buffer
<1>15. CASE RecvTail
  <2>1. rx # << >>
    BY <1>15 DEF RecvTail, Receiver
  <2> QED
    BY <1>15, <2>1, HeadTaken DEF RecvTail, Types, EditInd, Buffer
<1>16. CASE RecvNothing \/ RaiseFlag
  BY <1>16 DEF RecvNothing, RaiseFlag, Types, EditInd
<1>17. CASE CopyHead
  BY <1>17 DEF CopyHead, Types, EditInd, Buffer
<1>18. CASE CopyTail
  BY <1>18 DEF CopyTail, Types, EditInd, Buffer
<1>19. CASE Board
  <2> DEFINE fr == Head(wire)
  <2>1. wire # << >> /\ wire' = Tail(wire)
    BY <1>19 DEF Board
  <2>2. /\ wire' \in Seq(OutFrame) /\ fr \in OutFrame
        /\ fr.to = "other" => \E p \in Packets : fr.pkt = <<p>>
        /\ \A n \in DOMAIN wire' : wire'[n].to = "other" => \E p \in Packets : wire'[n].pkt = <<p>>
    BY <2>1, HeadTaken DEF Types
  <2>3. rx' \in Seq(InFrame) /\ board' \in GoodFilter /\ counted' \in Nat
    <3>1. CASE fr.to = "admin"
      BY <1>19, <2>2, <3>1, BoardSends DEF Types, OutFrame
    <3>2. CASE fr.to = "probe"
      <4>1. PICK e \in InFrame : rx' = rx \/ rx' = Append(rx, e)
        BY <1>19, <3>2, BoardSends
      <4>2. rx' \in Seq(InFrame)
        BY <4>1, Appended DEF Types
      <4>3. UNCHANGED <<board, counted>>
        BY <1>19, <3>2, BoardSends
      <4> QED
        BY <4>2, <4>3 DEF Types
    <3>3. CASE fr.to = "other"
      BY <1>19, <3>3, BoardSends, Appended DEF Types
    <3> QED
      BY <1>19, <3>1, <3>2, <3>3, BoardSends
  <2> QED
    BY <1>19, <2>2, <2>3 DEF Board, Types, EditInd
<1>20. CASE Lose
  <2>1. /\ wire' \in Seq(OutFrame)
        /\ \A n \in DOMAIN wire' : wire'[n].to = "other" => \E p \in Packets : wire'[n].pkt = <<p>>
    BY <1>20, HeadTaken DEF Types, Lose
  <2> QED
    BY <1>20, <2>1 DEF Lose, Types, EditInd
<1> QED
  BY <1>1, <1>2, <1>4, <1>5, <1>6, <1>7, <1>8, <1>9, <1>10, <1>11, <1>12, <1>13, <1>14, <1>15,
     <1>16, <1>17, <1>18, <1>19, <1>20 DEF Next, Command, PromptStep, ReceiverStep
-------------------------------------------------------------------------------
(* What a step does to the frames under way.                                 *)

\* A frame is added to the socket, or dropped because the socket is closed.
LEMMA Grown ==
  ASSUME Types, NEW e \in InFrame, rx' = rx \/ rx' = Append(rx, e)
  PROVE  /\ rx # << >> => rx' # << >> /\ rx'[1] = rx[1]
         /\ \A n \in DOMAIN rx' : (n \in DOMAIN rx /\ rx'[n] = rx[n]) \/ (n = Len(rx) + 1 /\ rx'[n] = e)
<1>1. rx \in Seq(InFrame)
  BY DEF Types
<1>2. CASE rx' = rx
  BY <1>2
<1>3. CASE rx' = Append(rx, e)
  <2>1. \A n \in DOMAIN rx' : (n \in DOMAIN rx /\ rx'[n] = rx[n]) \/ (n = Len(rx) + 1 /\ rx'[n] = e)
    BY <1>1, <1>3, Appended
  <2>2. rx # << >> => 1 \in DOMAIN rx /\ rx' # << >>
    BY <1>1, <1>3
  <2> QED
    BY <1>1, <1>3, <2>1, <2>2, Appended
<1> QED
  BY <1>2, <1>3

LEMMA SendFrames ==
  ASSUME Types, NEW fr \in OutFrame, NEW pay \in Pay, Send(fr, pay)
  PROVE  /\ \A n \in DOMAIN wire' : \/ n \in DOMAIN wire /\ wire'[n] = wire[n] /\ n < Len(wire) + 1
                                    \/ n = Len(wire) + 1 /\ wire'[n] = fr
         /\ \A n \in DOMAIN rx' : (n \in DOMAIN rx /\ rx'[n] = rx[n]) \/ rx'[n] = Own(pay)
         /\ rx # << >> => rx' # << >> /\ rx'[1] = rx[1]
<1>1. wire' = Append(wire, fr) /\ (rx' = rx \/ rx' = Append(rx, Own(pay)))
  BY DEF Send
<1>2. \A n \in DOMAIN wire' : \/ n \in DOMAIN wire /\ wire'[n] = wire[n] /\ n < Len(wire) + 1
                              \/ n = Len(wire) + 1 /\ wire'[n] = fr
  BY <1>1, Appended DEF Types
<1>3. Own(pay) \in InFrame
  BY FrameTypes
<1> QED
  BY <1>1, <1>2, <1>3, Grown

LEMMA TailFrames ==
  ASSUME Types, wire # << >>, wire' = Tail(wire)
  PROVE  /\ 1 \in DOMAIN wire /\ Head(wire) = wire[1] /\ Head(wire) \in OutFrame
         /\ \A n \in DOMAIN wire' : /\ n \in Nat /\ n >= 1 /\ n + 1 \in DOMAIN wire
                                   /\ wire'[n] = wire[n + 1]
BY HeadTaken DEF Types

LEMMA SourceOf == /\ \A pay : Own(pay).src = "random"
                  /\ ZeroMemory.src = "zero"
                  /\ \A c, n, id : Frame("query", c, n, id, << >>).src = "query"
                  /\ \A pay : Frame("normal", EmptyFilter, 0, 0, pay).src = "normal"
BY DEF Own, ZeroMemory, Frame

-------------------------------------------------------------------------------
(* The receiver thread.                                                      *)

LEMMA ReceiverKept == ASSUME CliInd, Next PROVE Receiver'
<1> USE DEF CliInd, editvars, probing, testing, prompt, buffers, ending, net, fpga, history,
            Receiver, Receiving
<1> DEFINE Grows == rx # << >> => rx' # << >> /\ rx'[1] = rx[1]
<1>1. ASSUME UNCHANGED <<rpc, recv_pkt_buf, probe_pkt_buf>>, Grows PROVE Receiver'
  BY <1>1
<1>2. CASE EditCommand \/ ProbeCommand \/ QuitCommand
  BY <1>2 DEF EditCommand, ProbeCommand, QuitCommand
<1>3. ASSUME NEW c \in GoodFilter, SendConfig(c) PROVE Receiver'
  <2>1. Grows
    BY <1>3, FrameTypes, SendFrames DEF SendConfig, Pay
  <2> QED
    BY <1>1, <1>3, <2>1 DEF SendConfig
<1>4. CASE ApplyCommand \/ TestCommand
  BY <1>3, <1>4, ConfigAssumption, GoodIn DEF ApplyCommand, TestCommand, EditInd, Good
<1>5. CASE probe_fpga
  <2>1. Grows
    <3>1. ProbeFrame(probes + 1) \in OutFrame /\ << >> \in Pay
      BY FrameTypes DEF Types, Pay
    <3> QED
      BY <1>5, <3>1, SendFrames DEF probe_fpga
  <2> QED
    BY <1>1, <1>5, <2>1 DEF probe_fpga
<1>6. CASE TimeOut \/ ParseHead \/ ParseTail
  BY <1>6 DEF TimeOut, ParseHead, ParseTail
<1>7. ASSUME NEW p \in Packets, TestPacket(p) PROVE Receiver'
  <2>1. Grows
    BY <1>7, FrameTypes, SendFrames DEF TestPacket, Pay
  <2> QED
    BY <1>1, <1>7, <2>1 DEF TestPacket
<1>8. CASE LookHead \/ LookTail \/ CloseSocket \/ RaiseShutdown \/ Join
  BY <1>8 DEF LookHead, LookTail, CloseSocket, RaiseShutdown, Join
<1>9. CASE RecvHead
  BY <1>9, HeadTaken DEF RecvHead, Types, Buffer
<1>10. CASE RecvTail
  <2>1. Head(rx) = rx[1]
    BY <1>10, HeadTaken DEF RecvTail, Types
  <2> QED
    BY <1>10, <2>1 DEF RecvTail, Again, Types, Buffer
<1>11. CASE RecvNothing \/ RaiseFlag
  BY <1>11 DEF RecvNothing, RaiseFlag, Again
<1>12. CASE CopyHead
  BY <1>12 DEF CopyHead, Types, Buffer
<1>13. CASE CopyTail
  BY <1>13 DEF CopyTail, Types, Buffer
<1>14. CASE Board
  <2>1. Grows
    <3>1. PICK e \in InFrame : rx' = rx \/ rx' = Append(rx, e)
      BY <1>14, BoardSends, FrameTypes
    <3> QED
      BY <3>1, Grown
  <2> QED
    BY <1>1, <1>14, <2>1 DEF Board
<1>15. CASE Lose
  BY <1>15 DEF Lose
<1> QED
  BY <1>2, <1>4, <1>5, <1>6, <1>7, <1>8, <1>9, <1>10, <1>11, <1>12, <1>13, <1>14, <1>15
  DEF Next, Command, PromptStep, ReceiverStep
-------------------------------------------------------------------------------
(* expect_receive.                                                           *)

LEMMA LookedKept == ASSUME CliInd, Next PROVE Looked'
<1> USE DEF CliInd, editvars, probing, testing, prompt, buffers, ending, net, fpga, history,
            Looked, IsSent
<1> DEFINE Sockets == \A n \in DOMAIN rx' : (n \in DOMAIN rx /\ rx'[n] = rx[n]) \/ rx'[n].src = "random"
\* The prompt's thread goes on, and does not look at the buffer.
<1>1. ASSUME UNCHANGED <<recv_pkt_buf, forwarded, payload, seen>>, Sockets,
             pc' \notin {"look", "look2"}, verdict' = verdict \/ verdict' # "received"
      PROVE  Looked'
  BY <1>1
<1>2. CASE EditCommand
  BY <1>2 DEF EditCommand
<1>3. CASE ProbeCommand \/ QuitCommand
  BY <1>3 DEF ProbeCommand, QuitCommand
<1>4. ASSUME NEW c \in GoodFilter, SendConfig(c), pc' = "probe" PROVE Looked'
  <2>1. Sockets
    BY <1>4, FrameTypes, SendFrames, SourceOf DEF SendConfig, Pay
  <2> QED
    BY <1>1, <1>4, <2>1 DEF SendConfig
<1>5. CASE ApplyCommand \/ TestCommand
  BY <1>4, <1>5, ConfigAssumption, GoodIn DEF ApplyCommand, TestCommand, EditInd, Good
<1>6. CASE probe_fpga
  <2>1. Sockets
    <3>1. ProbeFrame(probes + 1) \in OutFrame /\ << >> \in Pay
      BY FrameTypes DEF Types, Pay
    <3> QED
      BY <1>6, <3>1, SendFrames, SourceOf DEF probe_fpga
  <2> QED
    BY <1>1, <1>6, <2>1 DEF probe_fpga
<1>7. ASSUME NEW c, Return(c) PROVE pc' \notin {"look", "look2"} /\ verdict' # "received"
  BY <1>7 DEF Return
<1>8. CASE TimeOut
  BY <1>1, <1>7, <1>8 DEF TimeOut
<1>9. CASE ParseHead
  BY <1>9 DEF ParseHead
<1>10. CASE ParseTail
  BY <1>1, <1>7, <1>10 DEF ParseTail
<1>11. ASSUME NEW p \in Packets, TestPacket(p) PROVE Looked'
  <2>1. Sockets
    BY <1>11, FrameTypes, SendFrames, SourceOf DEF TestPacket, Pay
  <2>2. seen'.head.src = "zero" /\ seen'.tail.src = "zero"
    BY <1>11, SourceOf DEF TestPacket, Whole
  <2> QED
    BY <1>11, <2>1, <2>2 DEF TestPacket
<1>12. CASE LookHead
  <2>1. seen'.head = recv_pkt_buf.head /\ seen'.tail = seen.tail
    BY <1>12 DEF LookHead, Types, Buffer
  <2>2. UNCHANGED <<rx, recv_pkt_buf, forwarded, payload>> /\ pc = "look"
    BY <1>12 DEF LookHead
  <2>3. \/ pc' = "look2" /\ verdict' = verdict /\ recv_pkt_buf.head.src = "normal"
        \/ pc' = "look" /\ verdict' = verdict
        \/ pc' \in {"data", "prompt"} /\ verdict' = "blocked"
    BY <1>12 DEF LookHead, Miss, Fate
  <2> QED
    BY <2>1, <2>2, <2>3
<1>13. CASE LookTail
  <2>1. seen'.tail = recv_pkt_buf.tail /\ seen'.head = seen.head
    BY <1>13 DEF LookTail, Types, Buffer
  <2>2. UNCHANGED <<rx, recv_pkt_buf, forwarded, payload>> /\ pc = "look2"
    BY <1>13 DEF LookTail
  <2>3. \/ pc' \in {"data", "prompt"} /\ recv_pkt_buf.tail.pay = payload
        \/ pc' = "look" /\ verdict' = verdict
        \/ pc' \in {"data", "prompt"} /\ verdict' = "blocked"
    BY <1>13 DEF LookTail, Miss, Fate
  <2> QED
    BY <2>1, <2>2, <2>3
<1>14. CASE CloseSocket \/ RaiseShutdown \/ Join
  BY <1>14 DEF CloseSocket, RaiseShutdown, Join
<1>15. CASE RecvHead
  <2>1. 1 \in DOMAIN rx /\ Head(rx) = rx[1]
    BY <1>15, HeadTaken DEF RecvHead, Types
  <2>2. recv_pkt_buf'.head = rx[1] /\ recv_pkt_buf'.tail = recv_pkt_buf.tail
    BY <1>15, <2>1 DEF RecvHead, Types, Buffer
  <2> QED
    BY <1>15, <2>1, <2>2 DEF RecvHead
<1>16. CASE RecvTail
  <2>1. rx # << >>
    BY <1>16 DEF RecvTail, Receiver
  <2>2. 1 \in DOMAIN rx /\ Head(rx) = rx[1]
    BY <2>1, HeadTaken DEF Types
  <2>3. \A n \in DOMAIN rx' : n + 1 \in DOMAIN rx /\ rx'[n] = rx[n + 1]
    BY <1>16, <2>1, HeadTaken DEF Types, RecvTail
  <2>4. recv_pkt_buf'.tail = rx[1] /\ recv_pkt_buf'.head = recv_pkt_buf.head
    BY <1>16, <2>2 DEF RecvTail, Types, Buffer
  <2> QED
    BY <1>16, <2>2, <2>3, <2>4 DEF RecvTail
<1>17. CASE RecvNothing \/ RaiseFlag \/ CopyHead \/ CopyTail
  BY <1>17 DEF RecvNothing, RaiseFlag, CopyHead, CopyTail
<1>18. CASE Board
  <2>1. UNCHANGED <<recv_pkt_buf, payload, seen, pc, verdict>>
    BY <1>18 DEF Board
  <2>2. /\ forwarded \subseteq forwarded'
        /\ \A n \in DOMAIN rx' : rx'[n].src = "normal" => rx'[n].pay \in forwarded'
    <3> DEFINE fr == Head(wire)
    <3>1. CASE fr.to = "admin"
      BY <1>18, <3>1, BoardSends
    <3>2. CASE fr.to = "probe"
      BY <1>18, <3>2, BoardSends, Grown, SourceOf
    <3>3. CASE fr.to = "other" /\ UNCHANGED <<rx, forwarded>>
      BY <3>3
    <3>4. CASE \E pay \in Pay :
                 /\ Frame("normal", EmptyFilter, 0, 0, pay) \in InFrame
                 /\ \/ rx' = rx
                    \/ rx' = Append(rx, Frame("normal", EmptyFilter, 0, 0, pay))
                 /\ forwarded' = forwarded \cup {pay}
      <4>1. PICK pay \in Pay :
                 /\ Frame("normal", EmptyFilter, 0, 0, pay) \in InFrame
                 /\ \/ rx' = rx
                    \/ rx' = Append(rx, Frame("normal", EmptyFilter, 0, 0, pay))
                 /\ forwarded' = forwarded \cup {pay}
        BY <3>4
      <4>2. Frame("normal", EmptyFilter, 0, 0, pay).pay = pay
        BY DEF Frame
      <4>3. \A n \in DOMAIN rx' : (n \in DOMAIN rx /\ rx'[n] = rx[n])
                                 \/ rx'[n] = Frame("normal", EmptyFilter, 0, 0, pay)
        BY <4>1, Grown
      <4> QED
        BY <4>1, <4>2, <4>3
    <3> QED
      BY <1>18, <3>1, <3>2, <3>3, <3>4, BoardSends
  <2> QED
    BY <2>1, <2>2
<1>19. CASE Lose
  BY <1>19 DEF Lose
<1> QED
  BY <1>2, <1>3, <1>5, <1>6, <1>8, <1>9, <1>10, <1>11, <1>12, <1>13, <1>14, <1>15, <1>16, <1>17,
     <1>18, <1>19 DEF Next, Command, PromptStep, ReceiverStep
-------------------------------------------------------------------------------
(* An answer is at one place, while no answer came late.                     *)

LEMMA NotLate == ASSUME Next, ~late' PROVE ~late
<1> USE DEF history
<1>1. CASE Command
  BY <1>1 DEF Command, EditCommand, ProbeCommand, ApplyCommand, TestCommand, QuitCommand, SendConfig
<1>2. CASE PromptStep
  BY <1>2 DEF PromptStep, probe_fpga, TimeOut, ParseHead, ParseTail, TestPacket, LookHead, LookTail,
              CloseSocket, RaiseShutdown, Join
<1>3. CASE ReceiverStep \/ Board \/ Lose
  BY <1>3 DEF ReceiverStep, RecvHead, RecvTail, RecvNothing, CopyHead, CopyTail, RaiseFlag, Board, Lose
<1> QED
  BY <1>1, <1>2, <1>3 DEF Next

\* No answer is under way.
Nothing == ~OnWire /\ ~InSocket /\ ~Receiving

LEMMA NothingUnlessWaiting ==
  ASSUME OnePlace, pc # "wait" \/ probe_reply_received
  PROVE  Nothing
BY DEF OnePlace, Nothing

LEMMA NothingSuffices == Nothing' => OnePlace'
BY DEF Nothing, OnePlace, OnWire, InSocket

LEMMA NothingSent ==
  ASSUME Types, Nothing, NEW fr \in OutFrame, NEW pay \in Pay, Send(fr, pay), fr.to # "probe",
         UNCHANGED rpc
  PROVE  Nothing'
<1>1. ~OnWire'
  BY SendFrames DEF Nothing, OnWire
<1>2. ~InSocket'
  BY SendFrames, SourceOf DEF Nothing, InSocket
<1> QED
  BY <1>1, <1>2 DEF Nothing, Receiving

\* What the commands, other than the probe, send.
LEMMA CommandSends ==
  /\ \A c \in GoodFilter : AdminFrame(c) \in OutFrame /\ AdminFrame(c).to = "admin"
  /\ \A p \in Packets : /\ DataFrame(p) \in OutFrame /\ DataFrame(p).to = "other"
                        /\ p.dnsPkt \in Pay
  /\ << >> \in Pay
  /\ \A c \in TestFilters : c \in GoodFilter
<1>1. \A c \in TestFilters : c \in GoodFilter
  BY ConfigAssumption, GoodIn DEF Good
<1> QED
  BY <1>1, FrameTypes DEF AdminFrame, DataFrame, Pay

LEMMA OnePlaceKept == ASSUME CliInd, ~late, Next, ~late' PROVE OnePlace'
<1> USE DEF CliInd, editvars, probing, testing, prompt, buffers, ending, net, fpga, history
<1>1. ASSUME Nothing, UNCHANGED <<wire, rx, rpc>> PROVE OnePlace'
  <2>1. Nothing'
    BY <1>1 DEF Nothing, OnWire, InSocket, Receiving
  <2> QED
    BY <2>1, NothingSuffices
<1>2. CASE EditCommand \/ ProbeCommand \/ QuitCommand
  BY <1>1, <1>2, NothingUnlessWaiting DEF EditCommand, ProbeCommand, QuitCommand, Prompt
<1>3. ASSUME NEW c \in GoodFilter, SendConfig(c), pc = "prompt" PROVE OnePlace'
  <2>1. Nothing'
    BY <1>3, CommandSends, NothingUnlessWaiting, NothingSent DEF SendConfig
  <2> QED
    BY <2>1, NothingSuffices
<1>4. CASE ApplyCommand \/ TestCommand
  BY <1>3, <1>4, CommandSends DEF ApplyCommand, TestCommand, EditInd, Prompt
<1>5. CASE probe_fpga
  <2>1. Nothing
    BY <1>5, NothingUnlessWaiting DEF probe_fpga
  <2>2. ProbeFrame(probes + 1) \in OutFrame /\ << >> \in Pay
    BY FrameTypes DEF Types, Pay
  <2>3. \A n \in DOMAIN wire' : wire'[n].to = "probe" => n = Len(wire) + 1
    BY <1>5, <2>1, <2>2, SendFrames DEF Nothing, OnWire, probe_fpga
  <2>4. ~InSocket'
    BY <1>5, <2>1, <2>2, SendFrames, SourceOf DEF Nothing, InSocket, probe_fpga
  <2>5. ~Receiving' /\ pc' = "wait" /\ ~probe_reply_received'
    BY <1>5, <2>1 DEF probe_fpga, Nothing, Receiving
  <2> QED
    BY <2>3, <2>4, <2>5 DEF OnePlace, InSocket
<1>6. CASE TimeOut
  <2>1. NothingPending
    BY <1>6 DEF TimeOut
  <2>2. Nothing
    BY <2>1 DEF Nothing, NothingPending, OnWire, InSocket, Receiver, Receiving
  <2> QED
    BY <1>1, <1>6, <2>2 DEF TimeOut
<1>7. CASE ParseHead
  BY <1>1, <1>7, NothingUnlessWaiting DEF ParseHead
<1>8. CASE ParseTail
  BY <1>1, <1>8, NothingUnlessWaiting DEF ParseTail
<1>9. ASSUME NEW p \in Packets, TestPacket(p) PROVE OnePlace'
  <2>1. Nothing'
    BY <1>9, CommandSends, NothingUnlessWaiting, NothingSent DEF TestPacket
  <2> QED
    BY <2>1, NothingSuffices
<1>10. CASE LookHead \/ LookTail \/ CloseSocket \/ RaiseShutdown \/ Join
  BY <1>1, <1>10, NothingUnlessWaiting DEF LookHead, LookTail, CloseSocket, RaiseShutdown, Join
<1>11. CASE RecvHead \/ CopyHead \/ CopyTail
  BY <1>11 DEF RecvHead, CopyHead, CopyTail, OnePlace, OnWire, InSocket, Receiving
<1>12. CASE RecvNothing
  BY <1>12 DEF RecvNothing, Again, OnePlace, OnWire, InSocket, Receiving
<1>13. CASE RaiseFlag
  <2>1. Nothing'
    BY <1>13 DEF RaiseFlag, Again, OnePlace, Nothing, OnWire, InSocket, Receiving
  <2> QED
    BY <2>1, NothingSuffices
<1>14. CASE RecvTail
  <2>1. rx # << >> /\ recv_pkt_buf.head = rx[1] /\ rx' = Tail(rx)
    BY <1>14 DEF RecvTail, Receiver
  <2>2. /\ 1 \in DOMAIN rx
        /\ \A n \in DOMAIN rx' : n \in Nat /\ n >= 1 /\ n + 1 \in DOMAIN rx /\ rx'[n] = rx[n + 1]
    BY <2>1, HeadTaken DEF Types
  <2>3. UNCHANGED <<wire, pc, probe_reply_received>>
    BY <1>14 DEF RecvTail
  <2>4. CASE rx[1].src = "query"
    <3>1. Receiving' /\ InSocket
      BY <1>14, <2>1, <2>2, <2>4 DEF RecvTail, Receiving, InSocket
    <3>2. ~InSocket'
      BY <2>2, <2>4 DEF OnePlace, InSocket
    <3> QED
      BY <2>3, <3>1, <3>2 DEF OnePlace, OnWire, InSocket
  <2>5. CASE rx[1].src # "query"
    <3>1. ~Receiving' /\ (InSocket' => InSocket)
      BY <1>14, <2>1, <2>2, <2>5 DEF RecvTail, Again, Receiving, InSocket
    <3>2. \A m, n \in DOMAIN rx' : rx'[m].src = "query" /\ rx'[n].src = "query" => m = n
      BY <2>2 DEF OnePlace
    <3> QED
      BY <2>3, <3>1, <3>2 DEF OnePlace, OnWire
  <2> QED
    BY <2>4, <2>5
<1>15. ASSUME wire # << >>, wire' = Tail(wire)
       PROVE  /\ OnWire' => OnWire /\ wire[1].to # "probe"
              /\ wire[1].to = "probe" => OnWire
              /\ \A m, n \in DOMAIN wire' : wire'[m].to = "probe" /\ wire'[n].to = "probe" => m = n
              /\ Head(wire) = wire[1]
  <2>1. /\ 1 \in DOMAIN wire /\ Head(wire) = wire[1]
        /\ \A n \in DOMAIN wire' : /\ n \in Nat /\ n >= 1 /\ n + 1 \in DOMAIN wire
                                  /\ wire'[n] = wire[n + 1]
    BY <1>15, TailFrames
  <2>2. OnWire' => OnWire /\ wire[1].to # "probe"
    BY <2>1 DEF OnePlace, OnWire
  <2>3. \A m, n \in DOMAIN wire' : wire'[m].to = "probe" /\ wire'[n].to = "probe" => m = n
    BY <2>1 DEF OnePlace
  <2> QED
    BY <2>1, <2>2, <2>3 DEF OnWire
<1>16. CASE Board
  <2>1. wire # << >> /\ wire' = Tail(wire) /\ UNCHANGED <<pc, rpc, probe_reply_received>>
    BY <1>16 DEF Board
  <2>2. Receiving' <=> Receiving
    BY <2>1 DEF Receiving
  <2>3. CASE Head(wire).to = "probe"
    <3>1. OnWire /\ ~OnWire' /\ ~InSocket /\ ~Receiving /\ pc = "wait" /\ ~probe_reply_received
      BY <1>15, <2>1, <2>3 DEF OnePlace
    <3>2. \A n \in DOMAIN rx' : rx'[n].src = "query" => n = Len(rx) + 1
      BY <1>16, <2>3, <3>1, BoardSends, Grown DEF InSocket
    <3> QED
      BY <1>15, <2>1, <2>2, <3>1, <3>2 DEF OnePlace
  <2>4. CASE Head(wire).to # "probe"
    <3>1. \A n \in DOMAIN rx' : rx'[n].src = "query" => n \in DOMAIN rx /\ rx'[n] = rx[n]
      BY <1>16, <2>4, BoardSends, Grown, SourceOf
    <3>2. InSocket' => InSocket
      BY <3>1 DEF InSocket
    <3> QED
      BY <1>15, <2>1, <2>2, <3>1, <3>2 DEF OnePlace
  <2> QED
    BY <2>3, <2>4
<1>17. CASE Lose
  <2>1. wire # << >> /\ wire' = Tail(wire) /\ UNCHANGED <<pc, rpc, probe_reply_received, rx>>
    BY <1>17 DEF Lose
  <2> QED
    BY <1>15, <2>1 DEF OnePlace, InSocket, Receiving
<1> QED
  BY <1>2, <1>4, <1>5, <1>6, <1>7, <1>8, <1>9, <1>10, <1>11, <1>12, <1>13, <1>14, <1>16, <1>17
  DEF Next, Command, PromptStep, ReceiverStep
-------------------------------------------------------------------------------
(* It answers the last probe.                                                *)

\* Where nothing is under way there is nothing to show of it.
LEMMA NothingWaits ==
  ASSUME CliInd, ~late, Next, ~late', pc' # "wait" \/ probe_reply_received'
  PROVE  Nothing'
BY OnePlaceKept DEF OnePlace, Nothing

LEMMA IdsKept == ASSUME CliInd, ~late, Next, ~late' PROVE Ids'
<1> USE DEF CliInd, editvars, probing, testing, prompt, buffers, ending, net, fpga, history
<1>1. ASSUME Nothing', pc \notin {"wait", "parse"}, pc' \notin {"wait", "parse"}, UNCHANGED <<pr, probes>>
      PROVE  Ids'
  BY <1>1 DEF Ids, Nothing, OnWire, InSocket
<1>2. CASE EditCommand \/ ProbeCommand \/ QuitCommand
  BY <1>1, <1>2, NothingWaits DEF EditCommand, ProbeCommand, QuitCommand, Prompt
<1>3. CASE ApplyCommand \/ TestCommand
  BY <1>1, <1>3, NothingWaits DEF ApplyCommand, TestCommand, SendConfig, Prompt
<1>4. CASE probe_fpga
  <2>1. Nothing
    BY <1>4, NothingUnlessWaiting DEF probe_fpga
  <2>2. ProbeFrame(probes + 1) \in OutFrame /\ << >> \in Pay /\ ProbeFrame(probes + 1).id = probes + 1
    BY FrameTypes DEF Types, Pay, ProbeFrame
  <2>3. \A n \in DOMAIN wire' : wire'[n].to = "probe" => wire'[n].id = probes + 1
    BY <1>4, <2>1, <2>2, SendFrames DEF Nothing, OnWire, probe_fpga
  <2>4. \A n \in DOMAIN rx' : rx'[n].src # "query"
    BY <1>4, <2>1, <2>2, SendFrames, SourceOf DEF Nothing, InSocket, probe_fpga
  <2> QED
    BY <1>4, <2>1, <2>3, <2>4 DEF probe_fpga, Ids, Nothing, Receiving
<1>5. ASSUME NEW c, Return(c) PROVE pc' \in {"data", "prompt"}
  BY <1>5 DEF Return
<1>6. CASE TimeOut
  <2>1. Nothing'
    BY <1>5, <1>6, NothingWaits DEF TimeOut
  <2> QED
    BY <1>5, <1>6, <2>1 DEF TimeOut, Ids, Nothing, OnWire, InSocket
<1>7. CASE ParseHead
  <2>1. Nothing'
    BY <1>7, NothingWaits DEF ParseHead
  <2>2. pr'.head = probe_pkt_buf.head
    BY <1>7 DEF ParseHead, Types, Buffer
  <2> QED
    BY <1>7, <2>1, <2>2 DEF ParseHead, Ids, Nothing, OnWire, InSocket
<1>8. CASE ParseTail
  <2>1. Nothing'
    BY <1>5, <1>8, NothingWaits DEF ParseTail
  <2>2. pr'.head = pr.head /\ pr'.tail = probe_pkt_buf.tail
    BY <1>8 DEF ParseTail, Types, Buffer
  <2>3. pr'.head.id = probes /\ pr'.tail.id = probes
    BY <1>8, <2>2 DEF ParseTail, Ids
  <2> QED
    BY <1>5, <1>8, <2>1, <2>3 DEF ParseTail, Ids, Nothing, OnWire, InSocket
<1>9. ASSUME NEW p \in Packets, TestPacket(p) PROVE Ids'
  BY <1>1, <1>9, NothingWaits DEF TestPacket
<1>10. CASE LookHead
  BY <1>1, <1>10, NothingWaits DEF LookHead, Miss, Fate
<1>11. CASE LookTail
  BY <1>1, <1>11, NothingWaits DEF LookTail, Miss, Fate
<1>12. CASE CloseSocket \/ RaiseShutdown \/ Join
  BY <1>1, <1>12, NothingWaits DEF CloseSocket, RaiseShutdown, Join
<1>13. CASE RecvHead
  BY <1>13 DEF RecvHead, Ids, Receiving
<1>14. CASE RecvTail
  <2>1. rx # << >> /\ recv_pkt_buf.head = rx[1] /\ rx' = Tail(rx)
    BY <1>14 DEF RecvTail, Receiver
  <2>2. /\ 1 \in DOMAIN rx
        /\ \A n \in DOMAIN rx' : n + 1 \in DOMAIN rx /\ rx'[n] = rx[n + 1]
    BY <2>1, HeadTaken DEF Types
  <2>3. UNCHANGED <<wire, pc, pr, probes, probe_pkt_buf, probe_reply_received>>
    BY <1>14 DEF RecvTail
  <2>4. recv_pkt_buf'.head = rx[1]
    BY <1>14, <2>1 DEF RecvTail, Types, Buffer
  <2>5. Receiving' => rx[1].src = "query"
    BY <1>14, <2>1 DEF RecvTail, Again, Receiving
  <2>6. /\ \A n \in DOMAIN rx' : rx'[n].src = "query" => rx'[n].id = probes
        /\ Receiving' => recv_pkt_buf'.head.id = probes
    BY <2>2, <2>4, <2>5 DEF Ids
  <2> QED
    BY <2>3, <2>6 DEF Ids
<1>15. CASE RecvNothing
  BY <1>15 DEF RecvNothing, Again, Ids, Receiving
<1>16. CASE CopyHead \/ CopyTail
  <2>1. Receiving /\ Receiving'
    BY <1>16 DEF CopyHead, CopyTail, Receiving
  <2>2. pc = "wait" /\ ~probe_reply_received
    BY <2>1 DEF OnePlace
  <2>3. UNCHANGED <<wire, rx, pc, pr, probes, recv_pkt_buf, probe_reply_received>>
    BY <1>16 DEF CopyHead, CopyTail
  <2> QED
    BY <2>1, <2>2, <2>3 DEF Ids
<1>17. CASE RaiseFlag
  <2>1. Receiving /\ pc = "wait"
    BY <1>17 DEF RaiseFlag, Receiving, OnePlace
  <2>2. probe_pkt_buf.head.id = probes /\ probe_pkt_buf.tail.id = probes
    BY <1>17, <2>1 DEF RaiseFlag, Receiver, Ids
  <2>3. UNCHANGED <<wire, rx, pc, pr, probes, probe_pkt_buf>> /\ ~Receiving'
    BY <1>17 DEF RaiseFlag, Again, Receiving
  <2> QED
    BY <2>1, <2>2, <2>3 DEF Ids
<1>18. ASSUME wire # << >>, wire' = Tail(wire), UNCHANGED probes
       PROVE  \A n \in DOMAIN wire' : wire'[n].to = "probe" => wire'[n].id = probes'
  BY <1>18, TailFrames DEF Ids
<1>19. CASE Board
  <2>1. /\ wire # << >> /\ wire' = Tail(wire)
        /\ UNCHANGED <<pc, rpc, pr, probes, recv_pkt_buf, probe_pkt_buf, probe_reply_received>>
    BY <1>19 DEF Board
  <2>2. Receiving' <=> Receiving
    BY <2>1 DEF Receiving
  <2>3. \A n \in DOMAIN rx' : rx'[n].src = "query" => rx'[n].id = probes
    <3>1. CASE Head(wire).to = "probe"
      <4> DEFINE e == Frame("query", board, counted, Head(wire).id, << >>)
      <4>1. e.id = probes
        BY <2>1, <3>1, TailFrames DEF Ids, Frame
      <4>2. e \in InFrame /\ (rx' = rx \/ rx' = Append(rx, e))
        BY <1>19, <3>1, BoardSends
      <4> HIDE DEF e
      <4> QED
        BY <4>1, <4>2, Grown DEF Ids
    <3>2. CASE Head(wire).to # "probe"
      BY <1>19, <3>2, BoardSends, Grown, SourceOf DEF Ids
    <3> QED
      BY <3>1, <3>2
  <2> QED
    BY <1>18, <2>1, <2>2, <2>3 DEF Ids
<1>20. CASE Lose
  BY <1>18, <1>20 DEF Lose, Ids, Receiving
<1> QED
  BY <1>2, <1>3, <1>4, <1>6, <1>7, <1>8, <1>9, <1>10, <1>11, <1>12, <1>13, <1>14, <1>15, <1>16, <1>17,
     <1>19, <1>20 DEF Next, Command, PromptStep, ReceiverStep
-------------------------------------------------------------------------------
(* It tells what the board holds.                                            *)

LEMMA ConfirmsKept == ASSUME CliInd, ~late, Next, ~late' PROVE Confirms'
<1> USE DEF CliInd, editvars, probing, testing, prompt, buffers, ending, net, fpga, history
<1>1. ASSUME Nothing', pc' \notin {"wait", "parse"},
             pc' = "prompt" /\ verdict' = "successful" /\ Answered' => board' = want' /\ NoAdmin'
      PROVE  Confirms'
  BY <1>1 DEF Confirms, Nothing, OnWire, InSocket
<1>2. CASE EditCommand
  <2>1. Nothing' /\ pc' = "prompt" /\ pc = "prompt"
    BY <1>2, NothingWaits DEF EditCommand, Prompt
  <2> QED
    BY <1>1, <1>2, <2>1 DEF EditCommand, Confirms, Answered, NoAdmin
<1>3. CASE ProbeCommand \/ QuitCommand
  BY <1>1, <1>3, NothingWaits DEF ProbeCommand, QuitCommand
<1>4. CASE ApplyCommand \/ TestCommand
  BY <1>1, <1>4, NothingWaits DEF ApplyCommand, TestCommand
<1>5. CASE probe_fpga
  <2>1. Nothing
    BY <1>5, NothingUnlessWaiting DEF probe_fpga
  <2>2. ProbeFrame(probes + 1) \in OutFrame /\ << >> \in Pay /\ ProbeFrame(probes + 1).to = "probe"
    BY FrameTypes DEF Types, Pay, ProbeFrame
  <2>3. \A m, n \in DOMAIN wire' : wire'[m].to = "probe" /\ wire'[n].to = "admin" => n < m
    BY <1>5, <2>1, <2>2, SendFrames DEF Nothing, OnWire, probe_fpga
  <2>4. \A n \in DOMAIN rx' : rx'[n].src # "query"
    BY <1>5, <2>1, <2>2, SendFrames, SourceOf DEF Nothing, InSocket, probe_fpga
  <2> QED
    BY <1>5, <2>1, <2>3, <2>4 DEF probe_fpga, Confirms, Nothing, Receiving
<1>6. ASSUME NEW c, Return(c)
      PROVE  /\ pc' \in {"data", "prompt"}
             /\ verdict' = "successful" => c = want
  BY <1>6 DEF Return
<1>7. CASE TimeOut
  <2>1. Nothing'
    BY <1>6, <1>7, NothingWaits DEF TimeOut
  <2>2. ~Answered'
    BY <1>7 DEF TimeOut, Answered, Ids
  <2> QED
    BY <1>1, <1>6, <1>7, <2>1, <2>2 DEF TimeOut
<1>8. CASE ParseHead
  <2>1. Nothing'
    BY <1>8, NothingWaits DEF ParseHead
  <2> QED
    BY <1>8, <2>1 DEF ParseHead, Confirms, Nothing, OnWire, InSocket, NoAdmin
<1>9. CASE ParseTail
  <2>1. Nothing'
    BY <1>6, <1>9, NothingWaits DEF ParseTail
  <2> DEFINE b == [pr EXCEPT !.tail = probe_pkt_buf.tail]
  <2>2. b \in Buffer /\ b.head = pr.head /\ b.tail = probe_pkt_buf.tail
    BY DEF Types, Buffer
  <2>3. Return(Seen(b)) /\ UNCHANGED <<want, board, wire>>
    BY <1>9 DEF ParseTail
  <2> HIDE DEF b
  <2>4. b.head.cfg = board /\ b.tail.cfg = board /\ NoAdmin
    BY <1>9, <2>2 DEF ParseTail, Ids, Confirms
  <2>5. Seen(b) = board
    BY <2>2, <2>4, SeenWhole
  <2>6. verdict' = "successful" => board' = want' /\ NoAdmin'
    BY <1>6, <2>3, <2>4, <2>5 DEF NoAdmin
  <2>7. pc' \in {"data", "prompt"}
    BY <1>6, <2>3
  <2> QED
    BY <1>1, <2>1, <2>6, <2>7
<1>10. ASSUME NEW p \in Packets, TestPacket(p) PROVE Confirms'
  BY <1>1, <1>10, NothingWaits DEF TestPacket
<1>11. CASE LookHead
  <2>1. pc' \in {"look", "look2", "data"} \/ (pc' = "prompt" /\ verdict' = "blocked")
    BY <1>11 DEF LookHead, Miss, Fate
  <2> QED
    BY <1>1, <2>1, NothingWaits
<1>12. CASE LookTail
  <2>1. pc' \in {"look", "data"} \/ (pc' = "prompt" /\ verdict' \in {"received", "blocked"})
    BY <1>12 DEF LookTail, Miss, Fate
  <2> QED
    BY <1>1, <2>1, NothingWaits
<1>13. CASE CloseSocket \/ RaiseShutdown \/ Join
  BY <1>1, <1>13, NothingWaits DEF CloseSocket, RaiseShutdown, Join
\* The receiver moves an answer on.
<1>14. CASE RecvHead
  BY <1>14 DEF RecvHead, Confirms, Receiving, Answered, NoAdmin
<1>15. CASE RecvTail
  <2>1. rx # << >> /\ recv_pkt_buf.head = rx[1] /\ rx' = Tail(rx)
    BY <1>15 DEF RecvTail, Receiver
  <2>2. /\ 1 \in DOMAIN rx
        /\ \A n \in DOMAIN rx' : n + 1 \in DOMAIN rx /\ rx'[n] = rx[n + 1]
    BY <2>1, HeadTaken DEF Types
  <2>3. UNCHANGED <<wire, pc, pr, board, want, verdict, probe_pkt_buf, probe_reply_received>>
    BY <1>15 DEF RecvTail
  <2>4. recv_pkt_buf'.head = rx[1]
    BY <1>15, <2>1 DEF RecvTail, Types, Buffer
  <2>5. Receiving' => rx[1].src = "query"
    BY <1>15, <2>1 DEF RecvTail, Again, Receiving
  <2>6. (NoAdmin' <=> NoAdmin) /\ (Answered' <=> Answered)
    BY <2>3 DEF NoAdmin, Answered
  <2>7. /\ \A n \in DOMAIN rx' : rx'[n].src = "query" => rx'[n].cfg = board /\ NoAdmin
        /\ Receiving' => recv_pkt_buf'.head.cfg = board /\ NoAdmin
    BY <2>2, <2>4, <2>5 DEF Confirms
  <2> QED
    BY <2>3, <2>6, <2>7 DEF Confirms
<1>16. CASE RecvNothing
  BY <1>16 DEF RecvNothing, Again, Confirms, Receiving, NoAdmin, Answered
<1>17. CASE CopyHead \/ CopyTail
  <2>1. Receiving /\ Receiving'
    BY <1>17 DEF CopyHead, CopyTail, Receiving
  <2>2. pc = "wait" /\ ~probe_reply_received
    BY <2>1 DEF OnePlace
  <2>3. UNCHANGED <<wire, rx, pc, board, recv_pkt_buf, probe_reply_received>>
    BY <1>17 DEF CopyHead, CopyTail
  <2> QED
    BY <2>1, <2>2, <2>3 DEF Confirms, NoAdmin
<1>18. CASE RaiseFlag
  <2>1. Receiving /\ pc = "wait"
    BY <1>18 DEF RaiseFlag, Receiving, OnePlace
  <2>2. probe_pkt_buf.head.cfg = board /\ probe_pkt_buf.tail.cfg = board /\ NoAdmin
    BY <1>18, <2>1 DEF RaiseFlag, Receiver, Confirms
  <2>3. UNCHANGED <<wire, rx, pc, board, probe_pkt_buf>> /\ ~Receiving'
    BY <1>18 DEF RaiseFlag, Again, Receiving
  <2> QED
    BY <2>1, <2>2, <2>3 DEF Confirms, NoAdmin
<1>19. ASSUME wire # << >>, wire' = Tail(wire)
       PROVE  /\ \A m, n \in DOMAIN wire' : wire'[m].to = "probe" /\ wire'[n].to = "admin" => n < m
              /\ NoAdmin => NoAdmin'
              /\ Head(wire).to = "admin" => ~NoAdmin
              /\ Head(wire).to = "probe" => NoAdmin'
  <2>1. /\ 1 \in DOMAIN wire /\ Head(wire) = wire[1]
        /\ \A n \in DOMAIN wire' : /\ n \in Nat /\ n >= 1 /\ n + 1 \in DOMAIN wire
                                  /\ wire'[n] = wire[n + 1]
    BY <1>19, TailFrames
  <2>2. \A m, n \in DOMAIN wire' : wire'[m].to = "probe" /\ wire'[n].to = "admin" => n < m
    BY <2>1 DEF Confirms
  <2>3. NoAdmin => NoAdmin'
    BY <2>1 DEF NoAdmin
  <2>4. Head(wire).to = "admin" => ~NoAdmin
    BY <2>1 DEF NoAdmin
  <2>5. Head(wire).to = "probe" => NoAdmin'
    BY <2>1 DEF NoAdmin, Confirms
  <2> QED
    BY <2>2, <2>3, <2>4, <2>5
<1>20. CASE Board
  <2>1. /\ wire # << >> /\ wire' = Tail(wire)
        /\ UNCHANGED <<pc, rpc, pr, want, verdict, recv_pkt_buf, probe_pkt_buf, probe_reply_received>>
    BY <1>20 DEF Board
  <2>2. (Receiving' <=> Receiving) /\ (Answered' <=> Answered)
    BY <2>1 DEF Receiving, Answered
  <2>3. CASE Head(wire).to = "admin"
    <3>1. ~NoAdmin /\ rx' = rx
      BY <1>19, <1>20, <2>1, <2>3, BoardSends
    <3> QED
      BY <1>19, <2>1, <2>2, <3>1 DEF Confirms
  <2>4. CASE Head(wire).to = "probe"
    <3> DEFINE e == Frame("query", board, counted, Head(wire).id, << >>)
    <3>1. e.cfg = board
      BY DEF Frame
    <3>2. e \in InFrame /\ (rx' = rx \/ rx' = Append(rx, e)) /\ board' = board
      BY <1>20, <2>4, BoardSends
    <3>3. NoAdmin'
      BY <1>19, <2>1, <2>4
    <3> HIDE DEF e
    <3>4. \A n \in DOMAIN rx' : rx'[n].src = "query" => rx'[n].cfg = board
      BY <3>1, <3>2, Grown DEF Confirms
    <3> QED
      BY <1>19, <2>1, <2>2, <3>2, <3>3, <3>4 DEF Confirms
  <2>5. CASE Head(wire).to = "other"
    <3>1. /\ board' = board
          /\ \A n \in DOMAIN rx' : rx'[n].src = "query" => n \in DOMAIN rx /\ rx'[n] = rx[n]
      BY <1>20, <2>5, BoardSends, Grown, SourceOf
    <3> QED
      BY <1>19, <2>1, <2>2, <3>1 DEF Confirms
  <2> QED
    BY <1>20, <2>3, <2>4, <2>5, BoardSends
<1>21. CASE Lose
  BY <1>19, <1>21 DEF Lose, Confirms, Receiving, Answered
<1> QED
  BY <1>2, <1>3, <1>4, <1>5, <1>7, <1>8, <1>9, <1>10, <1>11, <1>12, <1>13, <1>14, <1>15, <1>16, <1>17,
     <1>18, <1>20, <1>21 DEF Next, Command, PromptStep, ReceiverStep

-------------------------------------------------------------------------------
(* The theorems.                                                             *)

LEMMA CliInit == Init => CliInd
<1> SUFFICES ASSUME Init PROVE CliInd
  OBVIOUS
<1> USE DEF Init
<1>1. EditInd
  BY DefaultIsGood, GoodIn DEF EditInit, EditInd
<1>2. Types
  <2>1. board \in GoodFilter /\ want \in GoodFilter
    BY ConfigAssumption, EmptyIsGood, GoodIn DEF Good
  <2>2. wire \in Seq(OutFrame) /\ rx \in Seq(InFrame) /\ DOMAIN wire = {}
    OBVIOUS
  <2> QED
    BY <2>1, <2>2, FrameTypes DEF Types
<1>3. Receiver
  BY DEF Receiver, Receiving
<1>4. Whole(ZeroMemory).head.src = "zero" /\ Whole(ZeroMemory).tail.src = "zero" /\ DOMAIN rx = {}
      /\ DOMAIN wire = {}
  BY SourceOf DEF Whole
<1>5. Looked
  BY <1>4 DEF Looked, IsSent
<1>6. OnePlace
  BY <1>4 DEF OnePlace, OnWire, InSocket, Receiving
<1>7. Ids
  BY <1>4 DEF Ids, Receiving
<1>8. Confirms
  BY <1>4 DEF Confirms, Receiving, Answered
<1> QED
  BY <1>1, <1>2, <1>3, <1>5, <1>6, <1>7, <1>8 DEF CliInd

LEMMA CliStep == CliInd /\ [Next]_vars => CliInd'
<1> SUFFICES ASSUME CliInd, [Next]_vars PROVE CliInd'
  OBVIOUS
<1>1. CASE Next
  <2>1. EditInd' /\ Types' /\ Receiver' /\ Looked'
    BY <1>1, TypesStep, ReceiverKept, LookedKept
  <2>2. ASSUME ~late' PROVE OnePlace' /\ Ids' /\ Confirms'
    BY <1>1, <2>2, NotLate, OnePlaceKept, IdsKept, ConfirmsKept
  <2> QED
    BY <2>1, <2>2 DEF CliInd
<1>2. CASE UNCHANGED vars
  BY <1>2 DEF vars, editvars, probing, testing, prompt, buffers, ending, net, fpga, history, CliInd,
       EditInd, Types, Receiver, Receiving, Looked, IsSent, OnePlace, OnWire, InSocket, Ids, Confirms,
       Answered, NoAdmin
<1> QED
  BY <1>1, <1>2

\* The two threads, the network and the board keep the invariant, for any number of
\* commands, packets, looks and files and any configurations the board starts with.
THEOREM CliInvariance == Spec => []CliInd
BY CliInit, CliStep, PTL DEF Spec

\* What is in edit, in the tool's files and on the wire to the board fits the
\* board's lists, also when answers come late, are read in halves or do not come.
THEOREM SignedIsSound == Spec => []SignedSound
<1>1. CliInd => SignedSound
  BY EditIndImplies DEF CliInd
<1> QED
  BY <1>1, CliInvariance, PTL

\* Nothing of a removed entry stays behind, whichever way a configuration came in.
THEOREM EditIsClean == Spec => []AlwaysClean
<1>1. CliInd => AlwaysClean
  BY EditIndImplies DEF CliInd
<1> QED
  BY <1>1, CliInvariance, PTL

\* show announces of every section what the board's judgement does with packets.
THEOREM ShowIsTrue == Spec => []ShownIsJudged
<1>1. CliInd => ShownIsJudged
  BY EditIndImplies DEF CliInd
<1> QED
  BY <1>1, CliInvariance, PTL

\* probe_reply_recv returns the answer to the probe it has sent, both halves of it,
\* as long as no answer came late.
THEOREM TakenIsOwn == Spec => []OwnAnswer
<1>1. CliInd => OwnAnswer
  BY DEF CliInd, Ids, OwnAnswer, Answered
<1> QED
  BY <1>1, CliInvariance, PTL

\* "successful! apply confirmed" after an answer that was not late: the board holds
\* the configuration, whatever was lost on the way.
THEOREM SuccessConfirms == Spec => []AnswerConfirms
<1>1. CliInd => AnswerConfirms
  BY DEF CliInd, Confirms, AnswerConfirms
<1> QED
  BY <1>1, CliInvariance, PTL

\* expect_receive reports only payloads that the board sent on, unless the receiver
\* replaces the frame between its two looks.
THEOREM ReceivedIsSent == Spec => []ReceivedWasSent
<1>1. CliInd => ReceivedWasSent
  BY DEF CliInd, Looked, IsSent, ReceivedWasSent
<1> QED
  BY <1>1, CliInvariance, PTL
-------------------------------------------------------------------------------
(* The tool implements FilterTable.  The bag of a section's entries.         *)

One(e) == SetToBag({e})

\* What is entered at place i of a section.
At(c, x, i) == IF x = "dns" THEN [j \in 0 .. c.dnsItemEndPtr[i] - 1 |-> c.dnsList[i][j]]
                            ELSE c.List[x][i]

LEMMA BagOfPlaces ==
  ASSUME NEW c, NEW x, c.Length[x] \in {0, 1, 2}
  PROVE  /\ c.Length[x] = 0 => BagOf(c, x) = EmptyBag
         /\ c.Length[x] = 1 => BagOf(c, x) = One(At(c, x, 0))
         /\ c.Length[x] = 2 => BagOf(c, x) = One(At(c, x, 0)) (+) One(At(c, x, 1))
<1> DEFINE is == {i \in Entries : i < c.Length[x]}
           A(i) == At(c, x, i)
<1>1. BagOf(c, x) = [e \in {A(i) : i \in is} |-> Cardinality({i \in is : A(i) = e})]
  BY Zenon DEF BagOf, At
<1> HIDE DEF A
<1>2. CASE c.Length[x] = 0
  <2>1. is = {}
    BY <1>2, EntriesAre
  <2> QED
    BY <1>1, <1>2, <2>1 DEF EmptyBag, SetToBag
<1>3. CASE c.Length[x] = 1
  <2>1. is = {0}
    BY <1>3, EntriesAre
  <2>2. {A(i) : i \in is} = {A(0)}
    BY <2>1
  <2>3. {i \in is : A(i) = A(0)} = {0} /\ Cardinality({0}) = 1
    BY <2>1, FS_Singleton
  <2>4. BagOf(c, x) = [e \in {A(0)} |-> 1]
    BY <1>1, <2>2, <2>3
  <2> QED
    BY <1>3, <2>4 DEF One, SetToBag, A
<1>4. CASE c.Length[x] = 2
  <2>1. is = {0, 1}
    BY <1>4, EntriesAre
  <2>2. {A(i) : i \in is} = {A(0), A(1)}
    BY <2>1
  <2>3. Cardinality({0}) = 1 /\ Cardinality({1}) = 1 /\ Cardinality({0, 1}) = 2
    <3>1. Cardinality({0}) = 1 /\ Cardinality({1}) = 1 /\ IsFiniteSet({0})
      BY FS_Singleton
    <3>2. {0} \cup {1} = {0, 1} /\ 1 \notin {0}
      OBVIOUS
    <3> QED
      BY <3>1, <3>2, FS_AddElement
  <2>4. CASE A(0) = A(1)
    <3>1. {i \in is : A(i) = A(0)} = {0, 1}
      BY <2>1, <2>4
    <3>2. BagOf(c, x) = [e \in {A(0)} |-> 2]
      BY <1>1, <2>2, <2>3, <2>4, <3>1
    <3>3. One(A(0)) (+) One(A(1)) = [e \in {A(0)} |-> 2]
      BY <2>4 DEF One, SetToBag, (+)
    <3> QED
      BY <1>4, <3>2, <3>3 DEF A
  <2>5. CASE A(0) # A(1)
    <3>1. {i \in is : A(i) = A(0)} = {0} /\ {i \in is : A(i) = A(1)} = {1}
      BY <2>1, <2>5
    <3>2. BagOf(c, x) = [e \in {A(0), A(1)} |-> 1]
      BY <1>1, <2>2, <2>3, <3>1
    <3>3. One(A(0)) (+) One(A(1)) = [e \in {A(0), A(1)} |-> 1]
      BY <2>5 DEF One, SetToBag, (+)
    <3> QED
      BY <1>4, <3>2, <3>3 DEF A
  <2> QED
    BY <2>4, <2>5
<1> QED
  BY <1>2, <1>3, <1>4

LEMMA BagSteps ==
  ASSUME NEW a, NEW b
  PROVE  /\ EmptyBag (+) One(a) = One(a)
         /\ One(a) (-) One(a) = EmptyBag
         /\ (One(a) (+) One(b)) (-) One(a) = One(b)
         /\ (One(a) (+) One(b)) (-) One(b) = One(a)
         /\ a \in BagToSet(One(a))
         /\ a \in BagToSet(One(a) (+) One(b)) /\ b \in BagToSet(One(a) (+) One(b))
<1>1. EmptyBag (+) One(a) = One(a) /\ a \in BagToSet(One(a))
  BY DEF EmptyBag, One, SetToBag, (+), BagToSet
<1>2. One(a) (-) One(a) = EmptyBag
  BY DEF EmptyBag, One, SetToBag, (-)
<1>3. a \in BagToSet(One(a) (+) One(b)) /\ b \in BagToSet(One(a) (+) One(b))
  BY DEF One, SetToBag, (+), BagToSet
<1>4. CASE a = b
  <2>1. One(a) (+) One(b) = [e \in {a} |-> 2]
    BY <1>4 DEF One, SetToBag, (+)
  <2>2. [e \in {a} |-> 2] (-) One(a) = One(a)
    BY DEF One, SetToBag, (-)
  <2> QED
    BY <1>1, <1>2, <1>3, <1>4, <2>1, <2>2
<1>5. CASE a # b
  <2>1. One(a) (+) One(b) = [e \in {a, b} |-> 1]
    BY <1>5 DEF One, SetToBag, (+)
  <2>2. [e \in {a, b} |-> 1] (-) One(a) = One(b)
    BY <1>5 DEF One, SetToBag, (-)
  <2>3. [e \in {a, b} |-> 1] (-) One(b) = One(a)
    BY <1>5 DEF One, SetToBag, (-)
  <2> QED
    BY <1>1, <1>2, <1>3, <2>1, <2>2, <2>3
<1> QED
  BY <1>4, <1>5

LEMMA EmptyHasNone == BagCardinality(EmptyBag) = 0
BY Zenon DEF BagCardinality, EmptyBag, SetToBag

\* The sum over a bag is the function that satisfies its recursion, and one does.
LEMMA OneHasOne == ASSUME NEW a PROVE BagCardinality(One(a)) = 1
<1> DEFINE Step(D) == [S \in SUBSET {a} |->
                         IF S = {} THEN 0
                         ELSE [e \in {a} |-> 1][CHOOSE e \in S : TRUE] + D[S \ {CHOOSE e \in S : TRUE}]]
           W == [S \in SUBSET {a} |-> IF S = {} THEN 0 ELSE 1]
           D == CHOOSE D : D = Step(D)
<1>1. DOMAIN [e \in {a} |-> 1] = {a}
  OBVIOUS
<1>2. BagCardinality(One(a)) = D[{a}]
  BY <1>1, Zenon DEF BagCardinality, One, SetToBag
<1>3. \A S \in SUBSET {a} : S = {} \/ S = {a}
  OBVIOUS
<1>4. (CHOOSE e \in {a} : TRUE) = a /\ {a} \ {a} = {} /\ {} \in SUBSET {a} /\ {a} \in SUBSET {a} /\ {a} # {}
  OBVIOUS
<1>5. W[{}] = 0 /\ W[{a}] = 1
  BY <1>4
<1>6. \A S \in SUBSET {a} : W[S] = Step(W)[S]
  <2>1. Step(W)[{}] = 0
    BY <1>4
  <2>2. Step(W)[{a}] = 1
    <3> HIDE DEF W
    <3>1. Step(W)[{a}] = [e \in {a} |-> 1][a] + W[{}]
      BY <1>4, Zenon
    <3> QED
      BY <3>1, <1>5
  <2> HIDE DEF W, Step
  <2> QED
    BY <1>3, <1>5, <2>1, <2>2
<1>7. W = Step(W)
  <2>1. Step(W) = [S \in SUBSET {a} |-> Step(W)[S]] /\ W = [S \in SUBSET {a} |-> W[S]]
    OBVIOUS
  <2> HIDE DEF W, Step
  <2> QED
    BY <1>6, <2>1
<1>8. D = Step(D)
  <2> HIDE DEF W, Step
  <2> QED
    BY <1>7, Zenon
<1> HIDE DEF D
<1>9. D[{}] = 0
  <2>1. Step(D)[{}] = 0
    BY <1>4
  <2> QED
    BY <2>1, <1>8
<1>10. D[{a}] = 1
  <2>1. Step(D)[{a}] = [e \in {a} |-> 1][a] + D[{}]
    BY <1>4, Zenon
  <2>2. D[{a}] = [e \in {a} |-> 1][a] + D[{}]
    BY <2>1, <1>8
  <2> QED
    BY <2>2, <1>9
<1> QED
  BY <1>2, <1>10

-------------------------------------------------------------------------------
(* What an edit does to the tables.                                          *)

LEMMA TableFields ==
  ASSUME NEW c
  PROVE  /\ TableOf(c).entries = [x \in Sections |-> BagOf(c, x)]
         /\ TableOf(c).white = [x \in Sections |-> c.BW[x] = 1]
         /\ TableOf(c).reply = c.replyType
BY DEF TableOf

LEMMA TableEntry == ASSUME NEW c, NEW x \in Sections PROVE TableOf(c).entries[x] = BagOf(c, x)
BY DEF TableOf

LEMMA SameTurns ==
  ASSUME NEW c, NEW d, d.BW = c.BW, d.replyType = c.replyType
  PROVE  TableOf(d).white = TableOf(c).white /\ TableOf(d).reply = TableOf(c).reply
<1>1. TableOf(d).white = [x \in Sections |-> c.BW[x] = 1]
  <2>1. TableOf(d).white = [x \in Sections |-> d.BW[x] = 1]
    BY TableFields
  <2>2. [x \in Sections |-> d.BW[x] = 1] = [x \in Sections |-> c.BW[x] = 1]
    BY Zenon
  <2> QED
    BY ONLY <2>1, <2>2, Zenon
<1>2. TableOf(c).white = [x \in Sections |-> c.BW[x] = 1]
  BY TableFields
<1>3. TableOf(d).reply = TableOf(c).reply
  BY TableFields
<1> QED
  BY <1>1, <1>2, <1>3

\* Another section than the one that is edited.
Kept(c, d, x) == d.Length[x] = c.Length[x] /\ \A i \in Entries : At(d, x, i) = At(c, x, i)

LEMMA KeptBag ==
  ASSUME NEW c \in Filter, NEW d, NEW x \in Sections, Kept(c, d, x)
  PROVE  BagOf(d, x) = BagOf(c, x)
<1>1. c.Length[x] \in {0, 1, 2} /\ d.Length[x] \in {0, 1, 2}
  BY FieldTypes DEF Kept
<1>2. At(d, x, 0) = At(c, x, 0) /\ At(d, x, 1) = At(c, x, 1)
  BY EntriesAre DEF Kept
<1> QED
  BY <1>1, <1>2, BagOfPlaces DEF Kept

LEMMA OtherBags ==
  ASSUME NEW c \in Filter, NEW d, NEW x \in Sections, NEW B, BagOf(d, x) = B,
         \A y \in Sections \ {x} : Kept(c, d, y)
  PROVE  TableOf(d).entries = [TableOf(c).entries EXCEPT ![x] = B]
<1>1. \A y \in Sections \ {x} : BagOf(d, y) = BagOf(c, y)
  BY KeptBag
<1>2. TableOf(d).entries = [y \in Sections |-> BagOf(d, y)]
  BY TableFields
<1>3. [TableOf(c).entries EXCEPT ![x] = B]
        = [y \in Sections |-> IF y = x THEN B ELSE BagOf(c, y)]
  <2>1. TableOf(c).entries = [y \in Sections |-> BagOf(c, y)]
    BY TableFields
  <2>2. [[y \in Sections |-> BagOf(c, y)] EXCEPT ![x] = B]
          = [y \in Sections |-> IF y = x THEN B ELSE BagOf(c, y)]
    OBVIOUS
  <2> QED
    BY <2>1, <2>2
<1>4. \A y \in Sections : BagOf(d, y) = IF y = x THEN B ELSE BagOf(c, y)
  BY <1>1
<1> QED
  BY <1>2, <1>3, <1>4, Zenon

LEMMA AddedBag ==
  ASSUME NEW c \in Filter, NEW d, NEW x \in Sections, NEW n \in {0, 1},
         c.Length[x] = n, d.Length[x] = n + 1,
         \A i \in Entries : i < n => At(d, x, i) = At(c, x, i)
  PROVE  /\ BagCardinality(BagOf(c, x)) < 2
         /\ BagOf(d, x) = BagOf(c, x) (+) One(At(d, x, n))
<1>1. CASE n = 0
  <2>1. BagOf(c, x) = EmptyBag /\ BagOf(d, x) = One(At(d, x, 0))
    BY <1>1, BagOfPlaces
  <2> QED
    BY <1>1, <2>1, BagSteps, EmptyHasNone
<1>2. CASE n = 1
  <2>1. At(d, x, 0) = At(c, x, 0)
    BY <1>2, EntriesAre
  <2>2. BagOf(c, x) = One(At(c, x, 0))
    BY <1>2, BagOfPlaces
  <2>3. d.Length[x] = 2
    BY <1>2
  <2>4. BagOf(d, x) = One(At(d, x, 0)) (+) One(At(d, x, 1))
    BY <2>3, BagOfPlaces
  <2> QED
    BY <1>2, <2>1, <2>2, <2>4, OneHasOne
<1> QED
  BY <1>1, <1>2

\* The last entry takes the place of the one that is taken out.
LEMMA RemovedBag ==
  ASSUME NEW c \in Filter, NEW d, NEW x \in Sections, NEW n \in {0, 1}, NEW i \in Entries,
         c.Length[x] = n + 1, d.Length[x] = n, i <= n,
         \A k \in Entries : k < n => At(d, x, k) = At(c, x, IF k = i THEN n ELSE k)
  PROVE  /\ At(c, x, i) \in BagToSet(BagOf(c, x))
         /\ BagOf(d, x) = BagOf(c, x) (-) One(At(c, x, i))
<1>1. CASE n = 0
  <2>1. i = 0
    BY <1>1, EntriesAre
  <2>2. BagOf(d, x) = EmptyBag /\ BagOf(c, x) = One(At(c, x, 0))
    BY <1>1, BagOfPlaces
  <2> QED
    BY <2>1, <2>2, BagSteps
<1>2. CASE n = 1
  <2>1. c.Length[x] = 2 /\ d.Length[x] = 1
    BY <1>2
  <2>2. BagOf(d, x) = One(At(d, x, 0)) /\ BagOf(c, x) = One(At(c, x, 0)) (+) One(At(c, x, 1))
    BY <2>1, BagOfPlaces
  <2>3. At(d, x, 0) = At(c, x, IF 0 = i THEN 1 ELSE 0)
    BY <1>2, EntriesAre
  <2>4. i = 0 \/ i = 1
    BY EntriesAre
  <2> QED
    BY <2>2, <2>3, <2>4, BagSteps
<1> QED
  BY <1>1, <1>2

\* FilterTable's bags are these bags.
LEMMA BagsSame ==
  ASSUME NEW B, NEW e
  PROVE  /\ Table!BagCardinality(B) = BagCardinality(B) /\ Table!BagToSet(B) = BagToSet(B)
         /\ Table!(+)(B, Table!One(e)) = B (+) One(e)
         /\ Table!(-)(B, Table!One(e)) = B (-) One(e)
<1>1. Table!One(e) = One(e)
  BY DEF Table!One, Table!SetToBag, One, SetToBag
<1> QED
  BY <1>1 DEF Table!BagCardinality, BagCardinality, Table!BagToSet, BagToSet,
              Table!(+), (+), Table!(-), (-)

-------------------------------------------------------------------------------
(* The edit commands.                                                        *)

\* A configuration is edited in section x.
LEMMA AddMapped ==
  ASSUME NEW c \in Filter, NEW d, NEW x \in Sections, NEW n \in {0, 1}, NEW e \in EntryOf(x),
         c.Length[x] = n, d.Length[x] = n + 1, e = At(d, x, n),
         \A i \in Entries : i < n => At(d, x, i) = At(c, x, i),
         \A y \in Sections \ {x} : Kept(c, d, y)
  PROVE  /\ BagCardinality(TableOf(c).entries[x]) < FilterDepth
         /\ TableOf(d).entries = [TableOf(c).entries EXCEPT ![x] = @ (+) One(e)]
<1>1. BagCardinality(BagOf(c, x)) < 2 /\ BagOf(d, x) = BagOf(c, x) (+) One(e)
  BY AddedBag
<1>2. TableOf(c).entries[x] = BagOf(c, x)
  BY TableEntry
<1>3. TableOf(d).entries = [TableOf(c).entries EXCEPT ![x] = BagOf(c, x) (+) One(e)]
  BY <1>1, OtherBags
<1> QED
  BY <1>1, <1>2, <1>3, DepthAssumption

LEMMA RemoveMapped ==
  ASSUME NEW c \in Filter, NEW d, NEW x \in Sections, NEW n \in {0, 1}, NEW i \in Entries,
         c.Length[x] = n + 1, d.Length[x] = n, i <= n,
         \A k \in Entries : k < n => At(d, x, k) = At(c, x, IF k = i THEN n ELSE k),
         \A y \in Sections \ {x} : Kept(c, d, y)
  PROVE  \E e \in BagToSet(TableOf(c).entries[x]) :
            TableOf(d).entries = [TableOf(c).entries EXCEPT ![x] = @ (-) One(e)]
<1> DEFINE e == At(c, x, i)
<1>1. e \in BagToSet(BagOf(c, x)) /\ BagOf(d, x) = BagOf(c, x) (-) One(e)
  BY RemovedBag
<1>2. TableOf(c).entries[x] = BagOf(c, x)
  BY TableEntry
<1>3. TableOf(d).entries = [TableOf(c).entries EXCEPT ![x] = BagOf(c, x) (-) One(e)]
  BY <1>1, OtherBags
<1> HIDE DEF e
<1> QED
  BY <1>1, <1>2, <1>3

LEMMA AddAddrMapped ==
  ASSUME EditInd, NEW x \in Edited, NEW t \in Typed, AddAddr(x, t), UNCHANGED cmd
  PROVE  \E e \in EntryOf(x) : Table!Add(x, e)
<1> DEFINE n == f_curr.Length[x]
           e == Parsed(x, t)
<1>1. x \in AddrSections /\ x \in Sections /\ x # "dns"
  BY DEF AddAddr, AddrSections, Sections
<1>2. n \in {0, 1} /\ n \in Entries /\ f_curr \in Filter /\ file' = file
  BY <1>1, GoodParts, FieldTypes, EntriesAre, DepthAssumption DEF AddAddr, EditInd
<1>3. f_curr' = Fields(f_curr.BW, [f_curr.Length EXCEPT ![x] = (n + 1) % 4],
                       [f_curr.List EXCEPT ![x] = [@ EXCEPT ![n] = e]],
                       f_curr.dnsItemEndPtr, f_curr.dnsList, f_curr.replyType)
  BY AddAddrFields DEF EditInd
<1>4. e \in EntryOf(x)
  BY <1>1, ParsedType DEF EntryOf
<1> HIDE DEF e
<1>5. /\ f_curr'.BW = f_curr.BW /\ f_curr'.replyType = f_curr.replyType
      /\ f_curr'.dnsItemEndPtr = f_curr.dnsItemEndPtr /\ f_curr'.dnsList = f_curr.dnsList
      /\ f_curr'.Length = [f_curr.Length EXCEPT ![x] = (n + 1) % 4]
      /\ f_curr'.List = [f_curr.List EXCEPT ![x] = [@ EXCEPT ![n] = e]]
  BY <1>3 DEF Fields
<1>6. /\ f_curr'.Length[x] = n + 1
      /\ f_curr'.List[x] = [f_curr.List[x] EXCEPT ![n] = e]
      /\ \A y \in Sections \ {x} : f_curr'.Length[y] = f_curr.Length[y]
      /\ \A y \in AddrSections \ {x} : f_curr'.List[y] = f_curr.List[y]
  BY <1>1, <1>2, <1>5, FieldTypes
<1>7. f_curr.List[x] \in [Entries -> Addr]
  BY <1>1, <1>2, FieldTypes
<1>8. At(f_curr', x, n) = e /\ \A i \in Entries : i < n => At(f_curr', x, i) = At(f_curr, x, i)
  BY <1>1, <1>2, <1>6, <1>7, EntriesAre DEF At
<1>9. \A y \in Sections \ {x} : Kept(f_curr, f_curr', y)
  BY <1>5, <1>6 DEF Kept, At, AddrSections, Sections
<1> HIDE DEF n
<1>10. /\ BagCardinality(TableOf(f_curr).entries[x]) < FilterDepth
       /\ TableOf(f_curr').entries = [TableOf(f_curr).entries EXCEPT ![x] = @ (+) One(e)]
  <2>1. f_curr.Length[x] = n
    BY DEF n
  <2> QED
    BY <1>1, <1>2, <1>4, <1>6, <1>8, <1>9, <2>1, AddMapped
<1>11. TableOf(f_curr').white = TableOf(f_curr).white /\ TableOf(f_curr').reply = TableOf(f_curr).reply
  BY <1>5, SameTurns
<1>12. Table!Add(x, e)
  BY <1>2, <1>10, <1>11, BagsSame DEF Table!Add
<1> QED
  BY <1>4, <1>12

LEMMA RemoveAddrMapped ==
  ASSUME EditInd, NEW x \in Edited, NEW i \in Entries, RemoveAddr(x, i), UNCHANGED cmd
  PROVE  \E e \in BagToSet(TableOf(f_curr).entries[x]) : Table!Remove(x, e)
<1> DEFINE n == f_curr.Length[x] - 1
           l == f_curr.List[x]
           v == [l EXCEPT ![i] = l[n], ![n] = Zero]
<1>1. x \in AddrSections /\ x \in Sections /\ x # "dns"
  BY DEF RemoveAddr, AddrSections, Sections
<1>2. /\ n \in {0, 1} /\ n \in Entries /\ i <= n /\ f_curr \in Filter /\ file' = file
      /\ f_curr.Length[x] = n + 1
  BY <1>1, GoodParts, FieldTypes, EntriesAre DEF RemoveAddr, EditInd
<1>3. f_curr' = Fields(f_curr.BW, [f_curr.Length EXCEPT ![x] = n], [f_curr.List EXCEPT ![x] = v],
                       f_curr.dnsItemEndPtr, f_curr.dnsList, f_curr.replyType)
  BY RemoveAddrFields DEF EditInd
<1>4. l \in [Entries -> Addr]
  BY <1>1, <1>2, FieldTypes
<1>5. \A k \in Entries : k < n => v[k] = l[IF k = i THEN n ELSE k]
  <2> HIDE DEF l, n
  <2> QED
    BY <1>2, <1>4, EntriesAre
<1> HIDE DEF n, v
<1>6. /\ f_curr'.BW = f_curr.BW /\ f_curr'.replyType = f_curr.replyType
      /\ f_curr'.dnsItemEndPtr = f_curr.dnsItemEndPtr /\ f_curr'.dnsList = f_curr.dnsList
      /\ f_curr'.Length = [f_curr.Length EXCEPT ![x] = n]
      /\ f_curr'.List = [f_curr.List EXCEPT ![x] = v]
  BY <1>3 DEF Fields
<1>7. /\ f_curr'.Length[x] = n /\ f_curr'.List[x] = v
      /\ \A y \in Sections \ {x} : f_curr'.Length[y] = f_curr.Length[y]
      /\ \A y \in AddrSections \ {x} : f_curr'.List[y] = f_curr.List[y]
  BY <1>1, <1>2, <1>6, FieldTypes
<1>8. \A k \in Entries : k < n => At(f_curr', x, k) = At(f_curr, x, IF k = i THEN n ELSE k)
  BY <1>1, <1>5, <1>7 DEF At
<1>9. \A y \in Sections \ {x} : Kept(f_curr, f_curr', y)
  BY <1>6, <1>7 DEF Kept, At, AddrSections, Sections
<1>10. PICK e \in BagToSet(TableOf(f_curr).entries[x]) :
          TableOf(f_curr').entries = [TableOf(f_curr).entries EXCEPT ![x] = @ (-) One(e)]
  BY <1>1, <1>2, <1>7, <1>8, <1>9, RemoveMapped
<1>11. TableOf(f_curr').white = TableOf(f_curr).white /\ TableOf(f_curr').reply = TableOf(f_curr).reply
  BY <1>6, SameTurns
<1>12. Table!Remove(x, e)
  BY <1>2, <1>10, <1>11, BagsSame DEF Table!Remove
<1> QED
  BY <1>12

LEMMA AddTextMapped ==
  ASSUME EditInd, NEW q \in Texts, AddText(q), UNCHANGED cmd
  PROVE  \E e \in EntryOf("dns") : Table!Add("dns", e)
<1> DEFINE n == f_curr.Length["dns"]
           v == [j \in ItemIndex |-> IF j < Len(q) THEN q[j + 1] ELSE f_curr.dnsList[n][j]]
           e == Text(q)
<1>1. "dns" \in Sections /\ AddrSections = Sections \ {"dns"}
  BY DEF AddrSections, Sections
<1>2. n \in {0, 1} /\ n \in Entries /\ f_curr \in Filter /\ file' = file
  BY <1>1, GoodParts, FieldTypes, EntriesAre, DepthAssumption DEF AddText, EditInd
<1>3. f_curr' = Fields(f_curr.BW, [f_curr.Length EXCEPT !["dns"] = (n + 1) % 4], f_curr.List,
                       [f_curr.dnsItemEndPtr EXCEPT ![n] = Len(q)],
                       [f_curr.dnsList EXCEPT ![n] = v], f_curr.replyType)
  BY AddTextFields DEF EditInd
<1>4. e \in EntryOf("dns")
  BY DEF EntryOf
<1>5. [j \in 0 .. Len(q) - 1 |-> v[j]] = e
  <2>1. Len(q) \in Nat /\ Len(q) <= ItemBytes
    BY TextsAssumption DEF AddText
  <2>2. \A j \in 0 .. Len(q) - 1 : j \in ItemIndex /\ j < Len(q)
    BY <2>1, SizeAssumption DEF ItemIndex
  <2> QED
    BY <2>2 DEF Text
<1> HIDE DEF e, v
<1>6. /\ f_curr'.BW = f_curr.BW /\ f_curr'.replyType = f_curr.replyType /\ f_curr'.List = f_curr.List
      /\ f_curr'.dnsItemEndPtr = [f_curr.dnsItemEndPtr EXCEPT ![n] = Len(q)]
      /\ f_curr'.dnsList = [f_curr.dnsList EXCEPT ![n] = v]
      /\ f_curr'.Length = [f_curr.Length EXCEPT !["dns"] = (n + 1) % 4]
  BY <1>3 DEF Fields
<1>7. /\ f_curr'.Length["dns"] = n + 1
      /\ f_curr'.dnsItemEndPtr[n] = Len(q) /\ f_curr'.dnsList[n] = v
      /\ \A i \in Entries : i < n => /\ f_curr'.dnsItemEndPtr[i] = f_curr.dnsItemEndPtr[i]
                                     /\ f_curr'.dnsList[i] = f_curr.dnsList[i]
      /\ \A y \in Sections \ {"dns"} : f_curr'.Length[y] = f_curr.Length[y]
  BY <1>1, <1>2, <1>6, FieldTypes, EntriesAre
<1>8. At(f_curr', "dns", n) = e
  BY <1>5, <1>7 DEF At
<1>9. \A i \in Entries : i < n => At(f_curr', "dns", i) = At(f_curr, "dns", i)
  BY <1>7 DEF At
<1>10. \A y \in Sections \ {"dns"} : Kept(f_curr, f_curr', y)
  BY <1>6, <1>7 DEF Kept, At
<1> HIDE DEF n
<1>11. /\ BagCardinality(TableOf(f_curr).entries["dns"]) < FilterDepth
       /\ TableOf(f_curr').entries = [TableOf(f_curr).entries EXCEPT !["dns"] = @ (+) One(e)]
  <2>1. f_curr.Length["dns"] = n
    BY DEF n
  <2> QED
    BY <1>1, <1>2, <1>4, <1>7, <1>8, <1>9, <1>10, <2>1, AddMapped
<1>12. TableOf(f_curr').white = TableOf(f_curr).white /\ TableOf(f_curr').reply = TableOf(f_curr).reply
  BY <1>6, SameTurns
<1>13. Table!Add("dns", e)
  BY <1>2, <1>11, <1>12, BagsSame DEF Table!Add
<1> QED
  BY <1>4, <1>13

LEMMA RemoveTextMapped ==
  ASSUME EditInd, NEW i \in Entries, RemoveText(i), UNCHANGED cmd
  PROVE  \E e \in BagToSet(TableOf(f_curr).entries["dns"]) : Table!Remove("dns", e)
<1> DEFINE n == f_curr.Length["dns"] - 1
           ends == [f_curr.dnsItemEndPtr EXCEPT ![i] = f_curr.dnsItemEndPtr[n], ![n] = 0]
           items == [f_curr.dnsList EXCEPT ![i] = f_curr.dnsList[n], ![n] = Item(<< >>)]
<1>1. "dns" \in Sections /\ AddrSections = Sections \ {"dns"}
  BY DEF AddrSections, Sections
<1>2. /\ n \in {0, 1} /\ n \in Entries /\ i <= n /\ f_curr \in Filter /\ file' = file
      /\ f_curr.Length["dns"] = n + 1
  BY <1>1, GoodParts, FieldTypes, EntriesAre DEF RemoveText, EditInd
<1>3. f_curr' = Fields(f_curr.BW, [f_curr.Length EXCEPT !["dns"] = n], f_curr.List, ends, items,
                       f_curr.replyType)
  BY RemoveTextFields DEF EditInd
<1>4. f_curr.dnsItemEndPtr \in [Entries -> 0 .. ItemBytes]
      /\ f_curr.dnsList \in [Entries -> [ItemIndex -> Byte]]
  BY <1>2, FieldTypes
<1> HIDE DEF n
<1>5. \A k \in Entries : k < n => /\ ends[k] = f_curr.dnsItemEndPtr[IF k = i THEN n ELSE k]
                                  /\ items[k] = f_curr.dnsList[IF k = i THEN n ELSE k]
  BY <1>2, <1>4, EntriesAre
<1> HIDE DEF ends, items
<1>6. /\ f_curr'.BW = f_curr.BW /\ f_curr'.replyType = f_curr.replyType /\ f_curr'.List = f_curr.List
      /\ f_curr'.dnsItemEndPtr = ends /\ f_curr'.dnsList = items
      /\ f_curr'.Length = [f_curr.Length EXCEPT !["dns"] = n]
  BY <1>3 DEF Fields
<1>7. /\ f_curr'.Length["dns"] = n
      /\ \A y \in Sections \ {"dns"} : f_curr'.Length[y] = f_curr.Length[y]
  BY <1>1, <1>2, <1>6, FieldTypes
<1>8. \A k \in Entries : k < n => At(f_curr', "dns", k) = At(f_curr, "dns", IF k = i THEN n ELSE k)
  BY <1>5, <1>6 DEF At
<1>9. \A y \in Sections \ {"dns"} : Kept(f_curr, f_curr', y)
  BY <1>6, <1>7 DEF Kept, At
<1>10. PICK e \in BagToSet(TableOf(f_curr).entries["dns"]) :
          TableOf(f_curr').entries = [TableOf(f_curr).entries EXCEPT !["dns"] = @ (-) One(e)]
  <2>1. "dns" \in Sections
    BY <1>1
  <2>2. n \in {0, 1} /\ f_curr \in Filter /\ f_curr.Length["dns"] = n + 1 /\ i <= n
    BY <1>2
  <2> QED
    BY <1>7, <1>8, <1>9, <2>1, <2>2, RemoveMapped
<1>11. TableOf(f_curr').white = TableOf(f_curr).white /\ TableOf(f_curr').reply = TableOf(f_curr).reply
  BY <1>6, SameTurns
<1>12. Table!Remove("dns", e)
  BY <1>2, <1>10, <1>11, BagsSame DEF Table!Remove
<1> QED
  BY <1>12

LEMMA SetMapped ==
  ASSUME EditInd, NEW b \in {0, 1}, UNCHANGED cmd
  PROVE  /\ \A x \in Edited : SetBW(x, b) => Table!Turn(x, b = 1)
         /\ SetReply(b) => Table!TurnReply(b)
<1>1. ASSUME NEW d, d.Length = f_curr.Length, d.List = f_curr.List,
             d.dnsItemEndPtr = f_curr.dnsItemEndPtr, d.dnsList = f_curr.dnsList
      PROVE  TableOf(d).entries = TableOf(f_curr).entries
  <2>1. f_curr \in Filter
    BY GoodParts DEF EditInd
  <2>2. \A x \in Sections : Kept(f_curr, d, x)
    BY <1>1 DEF Kept, At
  <2>3. \A x \in Sections : BagOf(d, x) = BagOf(f_curr, x)
    BY <2>1, <2>2, KeptBag
  <2>4. /\ TableOf(d).entries = [x \in Sections |-> BagOf(d, x)]
        /\ TableOf(f_curr).entries = [x \in Sections |-> BagOf(f_curr, x)]
    BY TableFields
  <2> QED
    BY <2>3, <2>4, Zenon
<1>2. ASSUME NEW x \in Edited, SetBW(x, b) PROVE Table!Turn(x, b = 1)
  <2>1. f_curr' = Fields([f_curr.BW EXCEPT ![x] = b], f_curr.Length, f_curr.List,
                         f_curr.dnsItemEndPtr, f_curr.dnsList, f_curr.replyType)
    BY <1>2, SetBWFields DEF EditInd
  <2>2. /\ f_curr'.Length = f_curr.Length /\ f_curr'.List = f_curr.List
        /\ f_curr'.dnsItemEndPtr = f_curr.dnsItemEndPtr /\ f_curr'.dnsList = f_curr.dnsList
        /\ f_curr'.replyType = f_curr.replyType /\ f_curr'.BW = [f_curr.BW EXCEPT ![x] = b]
    BY <2>1 DEF Fields
  <2>3. TableOf(f_curr').entries = TableOf(f_curr).entries
    BY <1>1, <2>2
  <2>4. TableOf(f_curr').white = [TableOf(f_curr).white EXCEPT ![x] = (b = 1)]
    <3>1. f_curr.BW \in [Sections -> {0, 1}]
      BY GoodParts, FieldTypes DEF EditInd
    <3>2. \A y \in Sections : f_curr'.BW[y] = IF y = x THEN b ELSE f_curr.BW[y]
      BY <2>2, <3>1
    <3>3. TableOf(f_curr').white = [y \in Sections |-> f_curr'.BW[y] = 1]
      BY TableFields
    <3>4. TableOf(f_curr).white = [y \in Sections |-> f_curr.BW[y] = 1]
      BY TableFields
    <3>5. [[y \in Sections |-> f_curr.BW[y] = 1] EXCEPT ![x] = (b = 1)]
            = [y \in Sections |-> IF y = x THEN b = 1 ELSE f_curr.BW[y] = 1]
      BY Zenon
    <3>6. \A y \in Sections : (f_curr'.BW[y] = 1) = IF y = x THEN b = 1 ELSE f_curr.BW[y] = 1
      BY <3>2
    <3>7. [y \in Sections |-> f_curr'.BW[y] = 1]
            = [y \in Sections |-> IF y = x THEN b = 1 ELSE f_curr.BW[y] = 1]
      BY <3>6, Zenon
    <3> QED
      BY ONLY <3>3, <3>4, <3>5, <3>7, Zenon
  <2>5. TableOf(f_curr').reply = TableOf(f_curr).reply
    BY <2>2, TableFields
  <2>6. file' = file
    BY <1>2 DEF SetBW
  <2> QED
    BY <2>3, <2>4, <2>5, <2>6 DEF Table!Turn
<1>3. ASSUME SetReply(b) PROVE Table!TurnReply(b)
  <2>1. f_curr' = Fields(f_curr.BW, f_curr.Length, f_curr.List, f_curr.dnsItemEndPtr,
                         f_curr.dnsList, b)
    BY <1>3, SetReplyFields DEF EditInd
  <2>2. /\ f_curr'.Length = f_curr.Length /\ f_curr'.List = f_curr.List
        /\ f_curr'.dnsItemEndPtr = f_curr.dnsItemEndPtr /\ f_curr'.dnsList = f_curr.dnsList
        /\ f_curr'.replyType = b /\ f_curr'.BW = f_curr.BW
    BY <2>1 DEF Fields
  <2>3. TableOf(f_curr').entries = TableOf(f_curr).entries
    BY <1>1, <2>2
  <2>4. TableOf(f_curr').white = TableOf(f_curr).white
    <3>1. TableOf(f_curr').white = [y \in Sections |-> f_curr'.BW[y] = 1]
      BY TableFields
    <3>2. TableOf(f_curr).white = [y \in Sections |-> f_curr.BW[y] = 1]
      BY TableFields
    <3>3. \A y \in Sections : (f_curr'.BW[y] = 1) = (f_curr.BW[y] = 1)
      BY <2>2
    <3>4. [y \in Sections |-> f_curr'.BW[y] = 1] = [y \in Sections |-> f_curr.BW[y] = 1]
      BY <3>3, Zenon
    <3> QED
      BY ONLY <3>1, <3>2, <3>4, Zenon
  <2>5. TableOf(f_curr').reply = b
    BY <2>2, TableFields
  <2>6. file' = file
    BY <1>3 DEF SetReply
  <2> QED
    BY <2>3, <2>4, <2>5, <2>6 DEF Table!TurnReply
<1> QED
  BY <1>2, <1>3

\* A configuration is written to a file.
LEMMA WriteMapped ==
  ASSUME EditInd, NEW n \in Names, NEW c \in GoodFilter, c = f_curr \/ c \in TestFilters,
         file' = [file EXCEPT ![n] = c], f_curr' = f_curr,
         (cmd = "launch") = (cmd' = "launch")
  PROVE  Table!Save
<1> DEFINE saved == {TableOf(file[m]) : m \in {m \in Names : file[m] # Short}}
           later == {TableOf(file'[m]) : m \in {m \in Names : file'[m] # Short}}
           kept == {TableOf(file[m]) : m \in {m \in Names : m # n /\ file[m] # Short}}
<1>1. c # Short
  BY GoodParts, FileAssumption
<1>2. \A m \in Names : file'[m] = IF m = n THEN c ELSE file[m]
  BY DEF EditInd
<1>3. later = kept \cup {TableOf(c)}
  BY <1>1, <1>2
<1>4. kept \in SUBSET saved
  OBVIOUS
<1>5. Table!Current = TableOf(f_curr)
  BY DEF Table!Current, TableOf
<1>6. TableOf(c) \in {Table!Current} \cup {TableOf(d) : d \in TestFilters}
  BY <1>5
<1>7. UNCHANGED <<Table!table, cmd = "launch">>
  BY DEF Table!table
<1>8. \E k \in SUBSET saved, d \in {Table!Current} \cup {TableOf(d) : d \in TestFilters} :
         saved' = k \cup {d}
  <2>1. saved' = later
    OBVIOUS
  <2> HIDE DEF saved, later, kept
  <2> QED
    BY <1>3, <1>4, <1>6, <2>1
<1> QED
  BY <1>7, <1>8 DEF Table!Save

LEMMA LoadMapped ==
  ASSUME EditInd, NEW n \in Names, Load(n), UNCHANGED cmd
  PROVE  Table!Load \/ UNCHANGED <<f_curr, file, cmd>>
<1>1. file' = file
  BY DEF Load
<1>2. CASE file[n] = Short
  BY <1>1, <1>2 DEF Load
<1>3. CASE file[n] # Short
  <2>1. f_curr' = file[n]
    BY <1>3 DEF Load
  <2>2. TableOf(file[n]) \in {TableOf(file[m]) : m \in {m \in Names : file[m] # Short}}
    BY <1>3
  <2>3. Table!Current' = TableOf(f_curr')
    BY DEF Table!Current, TableOf
  <2>4. Table!Current' \in {TableOf(file[m]) : m \in {m \in Names : file[m] # Short}}
    BY <2>1, <2>2, <2>3
  <2> QED
    BY <1>1, <2>4 DEF Table!Load
<1> QED
  BY <1>2, <1>3

-------------------------------------------------------------------------------
(* The steps of the tool.                                                    *)

\* The board is asked at launch before the first prompt.
Launching == cmd = "launch" => pc \in {"probe", "wait", "parse"}

LEMMA LaunchStep == Launching /\ [Next]_vars => Launching'
<1> SUFFICES ASSUME Launching, [Next]_vars PROVE Launching'
  OBVIOUS
<1> USE DEF Launching
<1>1. CASE Command
  BY <1>1 DEF Command, EditCommand, ProbeCommand, ApplyCommand, TestCommand, QuitCommand, Prompt, prompt
<1>2. CASE probe_fpga \/ ParseHead
  BY <1>2 DEF probe_fpga, ParseHead
<1>3. CASE TimeOut \/ ParseTail
  BY <1>3 DEF TimeOut, ParseTail, Return
<1>4. CASE \E p \in Packets : TestPacket(p)
  BY <1>4 DEF TestPacket
<1>5. CASE LookHead \/ LookTail
  BY <1>5 DEF LookHead, LookTail, Miss, Fate
<1>6. CASE CloseSocket \/ RaiseShutdown \/ Join
  BY <1>6 DEF CloseSocket, RaiseShutdown, Join
<1>7. CASE ReceiverStep
  BY <1>7 DEF ReceiverStep, RecvHead, RecvTail, RecvNothing, CopyHead, CopyTail, RaiseFlag, prompt
<1>8. CASE Board \/ Lose
  BY <1>8 DEF Board, Lose, prompt
<1>9. CASE UNCHANGED vars
  BY <1>9 DEF vars, prompt
<1> QED
  BY <1>1, <1>2, <1>3, <1>4, <1>5, <1>6, <1>7, <1>8, <1>9 DEF Next, PromptStep

LEMMA EditMapped ==
  ASSUME EditInd, Edit, UNCHANGED cmd
  PROVE  Table!Next \/ UNCHANGED <<f_curr, file, cmd>>
<1>1. ASSUME NEW x \in Edited, NEW t \in Typed, AddAddr(x, t) PROVE Table!Next
  <2>1. x \in Sections
    BY EditedAssumption
  <2>2. \E e \in EntryOf(x) : Table!Add(x, e)
    BY <1>1, AddAddrMapped
  <2> QED
    BY <2>1, <2>2 DEF Table!Next
<1>2. ASSUME NEW x \in Edited, NEW i \in Entries, RemoveAddr(x, i) PROVE Table!Next
  <2>1. x \in Sections
    BY EditedAssumption
  <2>2. \E e \in Table!BagToSet(TableOf(f_curr).entries[x]) : Table!Remove(x, e)
    BY <1>2, RemoveAddrMapped, BagsSame
  <2> QED
    BY <2>1, <2>2 DEF Table!Next
<1>3. ASSUME NEW q \in Texts, AddText(q) PROVE Table!Next
  <2>1. "dns" \in Sections
    BY DEF Sections
  <2>2. \E e \in EntryOf("dns") : Table!Add("dns", e)
    BY <1>3, AddTextMapped
  <2> QED
    BY <2>1, <2>2 DEF Table!Next
<1>4. ASSUME NEW i \in Entries, RemoveText(i) PROVE Table!Next
  <2>1. "dns" \in Sections
    BY DEF Sections
  <2>2. \E e \in Table!BagToSet(TableOf(f_curr).entries["dns"]) : Table!Remove("dns", e)
    BY <1>4, RemoveTextMapped, BagsSame
  <2> QED
    BY <2>1, <2>2 DEF Table!Next
<1>5. ASSUME NEW x \in Edited, NEW b \in {0, 1}, SetBW(x, b) PROVE Table!Next
  <2>1. x \in Sections /\ (b = 1) \in BOOLEAN
    BY EditedAssumption
  <2>2. Table!Turn(x, b = 1)
    BY <1>5, SetMapped
  <2> QED
    BY <2>1, <2>2 DEF Table!Next
<1>6. ASSUME NEW b \in {0, 1}, SetReply(b) PROVE Table!Next
  <2>1. Table!TurnReply(b)
    BY <1>6, SetMapped
  <2> QED
    BY <2>1 DEF Table!Next
<1>7. ASSUME NEW n \in Names, Save(n) PROVE Table!Next
  <2>1. Table!Save
    BY <1>7, WriteMapped DEF Save, EditInd
  <2> QED
    BY <2>1 DEF Table!Next
<1>8. ASSUME NEW n \in Names, Load(n) PROVE Table!Next \/ UNCHANGED <<f_curr, file, cmd>>
  BY <1>8, LoadMapped DEF Table!Next
<1> QED
  BY <1>1, <1>2, <1>3, <1>4, <1>5, <1>6, <1>7, <1>8 DEF Edit

\* The configuration is sent by way of the scratch file.
LEMMA SendMapped ==
  ASSUME EditInd, NEW c, c = f_curr \/ c \in TestFilters, SendConfig(c), cmd # "launch",
         cmd' # "launch"
  PROVE  Table!Next
<1>1. c \in GoodFilter
  BY ConfigAssumption, GoodIn DEF EditInd, Good
<1>2. Scratch \in Names /\ file' = [file EXCEPT ![Scratch] = c] /\ f_curr' = f_curr
  BY ScratchAssumption DEF SendConfig
<1>3. Table!Save
  BY <1>1, <1>2, WriteMapped
<1> QED
  BY <1>3 DEF Table!Next

\* What is neither in edit nor in a file may change.
Untouched == UNCHANGED <<f_curr, file>> /\ (cmd = "launch") = (cmd' = "launch")

LEMMA UntouchedStutters == Untouched => UNCHANGED Table!tablevars
BY DEF Untouched, Table!tablevars, Table!table

LEMMA ReturnMapped ==
  ASSUME Launching, pc \in {"wait", "parse"}, NEW c, Return(c), file' = file
  PROVE  Table!Next \/ Untouched
<1>1. CASE cmd = "launch"
  <2>1. cmd' # "launch"
    BY <1>1 DEF Return
  <2>2. Table!Adopt
    BY <1>1, <2>1 DEF Table!Adopt
  <2> QED
    BY <2>2 DEF Table!Next
<1>2. CASE cmd # "launch"
  BY <1>2 DEF Return, Untouched
<1> QED
  BY <1>1, <1>2

LEMMA TableStep ==
  CliInd /\ Launching /\ [Next]_vars => [Table!Next]_(Table!tablevars)
<1> SUFFICES ASSUME CliInd, Launching, [Next]_vars PROVE Table!Next \/ Untouched
  BY UntouchedStutters
<1>0. EditInd
  BY DEF CliInd
<1>1. CASE EditCommand
  <2>1. Edit /\ UNCHANGED cmd
    BY <1>1 DEF EditCommand, prompt
  <2> QED
    BY <1>0, <2>1, EditMapped DEF Untouched
<1>2. CASE ApplyCommand
  BY <1>0, <1>2, SendMapped DEF ApplyCommand, Prompt, Launching
<1>3. CASE TestCommand
  BY <1>0, <1>3, SendMapped DEF TestCommand, Prompt, Launching
<1>4. CASE ProbeCommand \/ QuitCommand
  BY <1>4 DEF ProbeCommand, QuitCommand, Prompt, Launching, Untouched, editvars
<1>5. CASE TimeOut
  BY <1>5, ReturnMapped DEF TimeOut
<1>6. CASE ParseTail
  BY <1>6, ReturnMapped DEF ParseTail
<1>7. CASE probe_fpga \/ ParseHead
  BY <1>7 DEF probe_fpga, ParseHead, Untouched, editvars
<1>8. CASE \E p \in Packets : TestPacket(p)
  BY <1>8 DEF TestPacket, Untouched, editvars
<1>9. CASE LookHead \/ LookTail
  BY <1>9 DEF LookHead, LookTail, Miss, Fate, Untouched, editvars, Launching
<1>10. CASE CloseSocket \/ RaiseShutdown \/ Join
  BY <1>10 DEF CloseSocket, RaiseShutdown, Join, Untouched, editvars
<1>11. CASE ReceiverStep
  BY <1>11 DEF ReceiverStep, RecvHead, RecvTail, RecvNothing, CopyHead, CopyTail, RaiseFlag, prompt,
               Untouched, editvars
<1>12. CASE Board \/ Lose
  BY <1>12 DEF Board, Lose, prompt, Untouched, editvars
<1>13. CASE UNCHANGED vars
  BY <1>13 DEF vars, prompt, Untouched, editvars
<1> QED
  BY <1>1, <1>2, <1>3, <1>4, <1>5, <1>6, <1>7, <1>8, <1>9, <1>10, <1>11, <1>12, <1>13
     DEF Next, Command, PromptStep

LEMMA TableInit == Init => Table!Init
<1> SUFFICES ASSUME Init PROVE Table!Init
  OBVIOUS
<1>1. f_curr = DefaultFilter /\ file = [n \in Names |-> Short]
  BY DEF Init, EditInit
<1>2. Table!Current = TableOf(DefaultFilter)
  BY <1>1 DEF Table!Current, TableOf
<1>3. {TableOf(file[m]) : m \in {m \in Names : file[m] # Short}} = {}
  BY <1>1
<1> QED
  BY <1>2, <1>3 DEF Table!Init

\* The tool, with both threads, the network and the board, does to the user's
\* configuration and to the files only what FilterTable allows: an edit command
\* enters or takes out one entry of one table or turns one table or the reply type,
\* a self test and an apply write a file and leave the configuration in edit alone,
\* and only the launch takes over the board's.
THEOREM CliImplementsTable == Spec => ImplementsTable
<1>1. Init => Launching
  BY DEF Init, Launching
<1>2. Spec => []Launching
  BY <1>1, LaunchStep, PTL DEF Spec
<1> QED
  BY <1>2, CliInvariance, TableInit, TableStep, PTL DEF Spec, ImplementsTable, Table!Spec
===============================================================================
