------------------------------- MODULE AdminEdit -------------------------------
(***************************************************************************)
(* The commands of the admin tool that change the configuration in edit    *)
(* (f_curr) without talking to the board: edit add, remove and set, load   *)
(* and save, and what show prints of it.                                   *)
(*                                                                         *)
(* A command that is refused, with a message, changes nothing and is not a *)
(* step.  Files hold what write_to_admin_pkt wrote; that reading returns   *)
(* it is shown in AdminCodec.                                              *)
(***************************************************************************)
EXTENDS Judgement, Sequences, FiniteSets

CONSTANTS
    Zero,          \* the address whose bytes are all 0
    bswap_16(_),   \* a port with its bytes exchanged
    DefaultList,   \* the addresses and the domains of the configuration
    DefaultText,   \*   the tool starts with
    Edited,        \* bound: the sections that are edited
    Typed,         \* the addresses a user types, well or badly formed
    Texts,         \* the domains a user types
    Names,         \* file names
    Packets,       \* packets to judge
    Short          \* the content of a file the tool did not write, too short for it

\* The user's text for an address.  form is "good"; "short" if it has too few
\* characters; "bad" if a character is not allowed, v being what the groups
\* before it spell.
ASSUME TypedAssumption == Typed \subseteq [form : {"good", "short", "bad"}, v : Addr]
ASSUME TextsAssumption == Texts \subseteq Seq(Byte \ {0})
ASSUME EditedAssumption == Edited \subseteq Sections
ASSUME ZeroAssumption == Zero \in Addr /\ \A a \in Addr : bswap_16(a) \in Addr
ASSUME DepthAssumption == FilterDepth = 2
ASSUME DefaultAssumption ==
    /\ DefaultList \in [AddrSections -> [Entries -> Addr]]
    /\ \A i \in Entries : DefaultText[i] \in Seq(Byte \ {0}) /\ Len(DefaultText[i]) <= ItemBytes
ASSUME FileAssumption == Short \notin Filter

VARIABLES f_curr,  \* the configuration in edit
          file     \* the content of the files

editvars == <<f_curr, file>>

-------------------------------------------------------------------------------

\* A domain item: its text, then zeros.
Item(q) == [j \in ItemIndex |-> IF j < Len(q) THEN q[j + 1] ELSE 0]

\* {}
EmptyFilter == [BW |-> [x \in Sections |-> 0],
                Length |-> [x \in Sections |-> 0],
                List |-> [x \in AddrSections |-> [i \in Entries |-> Zero]],
                dnsItemEndPtr |-> [i \in Entries |-> 0],
                dnsList |-> [i \in Entries |-> Item(<< >>)],
                replyType |-> 0]

\* initialise_fpga_configuration.  Unused entries are zero.
DefaultFilter ==
    [BW |-> [x \in Sections |-> IF x \in {"srcMAC", "srcIP", "srcPort", "dstPort"} THEN 1 ELSE 0],
     Length |-> [x \in Sections |-> IF x \in {"srcMAC", "dstMAC"} THEN 1 ELSE 2],
     List |-> [x \in AddrSections |-> [i \in Entries |->
                 IF x \in {"srcMAC", "dstMAC"} /\ i >= 1 THEN Zero ELSE DefaultList[x][i]]],
     dnsItemEndPtr |-> [i \in Entries |-> Len(DefaultText[i])],
     dnsList |-> [i \in Entries |-> Item(DefaultText[i])],
     replyType |-> 0]

EditInit == f_curr = DefaultFilter /\ file = [n \in Names |-> Short]

-------------------------------------------------------------------------------
(* Parsing.  Badly formed text is not refused: what was parsed is entered.   *)

parse_mac(t) == IF t.form = "short" THEN Zero ELSE t.v

parse_ip(t) == IF t.form = "short" THEN Zero ELSE t.v

parse_port(t) == IF t.form = "bad" THEN Zero ELSE bswap_16(t.v)

Parsed(x, t) == CASE x \in {"srcMAC", "dstMAC"}   -> parse_mac(t)
                  [] x \in {"srcIP", "dstIP"}     -> parse_ip(t)
                  [] x \in {"srcPort", "dstPort"} -> parse_port(t)

-------------------------------------------------------------------------------
(* edit add.  Length is a field of two bits.                                 *)

\* Mutant: one entry more than there are is let in.
AddAddr_Full(x, t) ==
    /\ x \in AddrSections /\ f_curr.Length[x] <= FilterDepth
    /\ f_curr' = [f_curr EXCEPT !.List[x][f_curr.Length[x]] = Parsed(x, t),
                                !.Length[x] = (@ + 1) % 4]
    /\ UNCHANGED file

AddAddr(x, t) ==
    /\ x \in AddrSections /\ f_curr.Length[x] # FilterDepth
    /\ f_curr' = [f_curr EXCEPT !.List[x][f_curr.Length[x]] = Parsed(x, t),
                                !.Length[x] = (@ + 1) % 4]
    /\ UNCHANGED file

\* Only the bytes of the text are copied.
AddText(q) ==
    LET n == f_curr.Length["dns"]
    IN /\ n # FilterDepth /\ Len(q) <= ItemBytes
       /\ f_curr' = [f_curr EXCEPT
                       !.dnsList[n] = [j \in ItemIndex |-> IF j < Len(q) THEN q[j + 1] ELSE @[j]],
                       !.dnsItemEndPtr[n] = Len(q),
                       !.Length["dns"] = (@ + 1) % 4]
       /\ UNCHANGED file

-------------------------------------------------------------------------------
(* edit remove.  The last entry takes the place of the one removed.          *)

\* Mutant: the entry that was moved stays behind as well.
RemoveAddr_NoClear(x, i) ==
    /\ x \in AddrSections /\ i < f_curr.Length[x]
    /\ LET n == f_curr.Length[x] - 1
       IN f_curr' = [f_curr EXCEPT !.Length[x] = n,
                                   !.List[x] = [@ EXCEPT ![i] = f_curr.List[x][n]]]
    /\ UNCHANGED file

RemoveAddr(x, i) ==
    /\ x \in AddrSections /\ i < f_curr.Length[x]
    /\ LET n == f_curr.Length[x] - 1
       IN f_curr' = [f_curr EXCEPT !.Length[x] = n,
                                   !.List[x] = [@ EXCEPT ![i] = f_curr.List[x][n], ![n] = Zero]]
    /\ UNCHANGED file

RemoveText(i) ==
    /\ i < f_curr.Length["dns"]
    /\ LET n == f_curr.Length["dns"] - 1
       IN f_curr' = [f_curr EXCEPT
                       !.Length["dns"] = n,
                       !.dnsList = [@ EXCEPT ![i] = f_curr.dnsList[n], ![n] = Item(<< >>)],
                       !.dnsItemEndPtr = [@ EXCEPT ![i] = f_curr.dnsItemEndPtr[n], ![n] = 0]]
    /\ UNCHANGED file

-------------------------------------------------------------------------------
(* edit set, save and load.                                                  *)

\* Mutant: a branch copied from that of the destination port.
SetBW_Copied(x, b) == /\ f_curr' = [f_curr EXCEPT !.BW[IF x = "srcPort" THEN "dstPort" ELSE x] = b,
                                                  !.BW[x] = b]
                      /\ UNCHANGED file

SetBW(x, b) == f_curr' = [f_curr EXCEPT !.BW[x] = b] /\ UNCHANGED file

SetReply(b) == f_curr' = [f_curr EXCEPT !.replyType = b] /\ UNCHANGED file

Save(n) == file' = [file EXCEPT ![n] = f_curr] /\ UNCHANGED f_curr

\* A file that is too short is read, but parse_admin_bin keeps f_curr.
Load(n) == /\ f_curr' = IF file[n] = Short THEN f_curr ELSE file[n]
           /\ UNCHANGED file

Edit == \/ \E x \in Edited, t \in Typed : AddAddr(x, t)
        \/ \E x \in Edited, i \in Entries : RemoveAddr(x, i)
        \/ "dns" \in Edited /\ \E q \in Texts : AddText(q)
        \/ "dns" \in Edited /\ \E i \in Entries : RemoveText(i)
        \/ \E x \in Edited, b \in {0, 1} : SetBW(x, b)
        \/ \E b \in {0, 1} : SetReply(b)
        \/ \E n \in Names : Save(n) \/ Load(n)

EditSpec == EditInit /\ [][Edit]_editvars

-------------------------------------------------------------------------------
(* show: print_filter_configuration.                                         *)

\* Mutant: an empty whitelist is announced as letting everything through.
Headline_Swapped(c, x) == IF c.Length[x] > 0
                          THEN IF c.BW[x] = 1 THEN "Whitelisted" ELSE "Blacklisted"
                          ELSE IF c.BW[x] = 1 THEN "Allow ALL" ELSE "Block ALL"

\* The words above a section.
Headline(c, x) == IF c.Length[x] > 0
                  THEN IF c.BW[x] = 1 THEN "Whitelisted" ELSE "Blacklisted"
                  ELSE IF c.BW[x] = 1 THEN "Block ALL" ELSE "Allow ALL"

\* The entries printed below it: addresses, or the first bytes of domain items.
Printed(c, x) == {IF x = "dns" THEN [j \in 0 .. c.dnsItemEndPtr[i] - 1 |-> c.dnsList[i][j]]
                               ELSE c.List[x][i] : i \in {i \in Entries : i < c.Length[x]}}

-------------------------------------------------------------------------------

\* Every configuration the user can save, load and sign fits the board's lists and
\* has proper texts: what the core assumes of an authentic packet.
SignedSound == /\ SoundFilter(f_curr)
               /\ \A n \in Names : file[n] # Short => SoundFilter(file[n])

\* Entries beyond the length, and bytes beyond an item's end, are zero: without
\* that, add, which copies the bytes of the text alone, would leave old ones.
Clean(c) == /\ \A x \in AddrSections : \A i \in Entries : i >= c.Length[x] => c.List[x][i] = Zero
            /\ \A i \in Entries : i >= c.Length["dns"] => c.dnsItemEndPtr[i] = 0
            /\ \A i \in Entries : \A j \in ItemIndex : j >= c.dnsItemEndPtr[i] => c.dnsList[i][j] = 0

AlwaysClean == Clean(f_curr) /\ \A n \in Names : file[n] # Short => Clean(file[n])

\* What a reader of the printed section expects of packet p.
Expected(c, p, x) ==
    LET among == IF x = "dns"
                 THEN \E q \in Printed(c, x) : \E o \in 0 .. PktBytes :
                         /\ o + Cardinality(DOMAIN q) <= PayloadEnd(p)
                         /\ \A j \in DOMAIN q : p.dnsPkt[o + j] = q[j]
                 ELSE p.addr[x] \in Printed(c, x)
    IN CASE Headline(c, x) = "Whitelisted" -> among
         [] Headline(c, x) = "Blacklisted" -> ~among
         [] Headline(c, x) = "Block ALL"   -> FALSE
         [] Headline(c, x) = "Allow ALL"   -> TRUE

\* What show announces is what the board will do, section by section.
ShownIsJudged == \A p \in Packets, x \in Edited :
                    Expected(f_curr, p, x) <=> Accepts(f_curr, p, x)

\* admin-edit.hh: "add [filter-type] [filter-content]".  An address that is typed
\* well is matched from then on.
AddedIsMatched == [][\A x \in Edited \cap AddrSections, t \in Typed, p \in Packets :
                        AddAddr(x, t) /\ t.form = "good" /\ p.addr[x] = t.v
                          => Hit(f_curr', p, x)]_editvars
===============================================================================
