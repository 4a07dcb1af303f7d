-------------------------------- MODULE MCAdmin --------------------------------
(* The admin tool with four addresses, items of two bytes and short histories.  *)
EXTENDS AdminCli

\* Ports 1 and 2 differ in the order of their bytes.
MCbswap_16(a) == CASE a = 1 -> 2 [] a = 2 -> 1 [] OTHER -> a

MCHash(c) == 0

MCDefaultList == [x \in AddrSections |-> [i \in Entries |-> i + 1]]
MCDefaultText == [i \in Entries |-> IF i = 0 THEN <<1, 2>> ELSE <<1>>]

\* A port, a port with one digit too many, one that is no number.
MCTyped == {[form |-> "good", v |-> 1], [form |-> "good", v |-> 3], [form |-> "bad", v |-> 1]}
MCTexts == {<<2>>, <<2, 1>>, <<1, 2, 1>>}

Pkt(port, byte) == [addr |-> [[x \in AddrSections |-> 3] EXCEPT !["srcPort"] = port],
                    ipLength |-> 40, dnsLength |-> 2,
                    dnsPkt |-> [j \in PktIndex |-> IF j = 0 THEN byte ELSE IF j = 1 THEN 1 ELSE 0],
                    cfg |-> EmptyFilter, stats |-> 0, mac |-> 0]

MCPackets == {Pkt(1, 1), Pkt(3, 3), Pkt(2, 4)}

Blacklist == [EmptyFilter EXCEPT !.Length["srcPort"] = 1, !.List["srcPort"][0] = 1]
Answering == [EmptyFilter EXCEPT !.replyType = 1]

MCTestFilters == {Blacklist, Answering}
MCBoardFilters == {Blacklist}

\* Three edits; talk to the board, twice, or after an edit; a self test.
MCSessions == {<<"edit", "edit", "edit">>, <<"edit", "apply">>, <<"apply", "probe", "quit">>,
               <<"probe", "apply">>, <<"test">>}

\* The board as it was built; a probe, another configuration, the first one again.
MCBuiltFilters == {DefaultFilter}
MCLateSessions == {<<"probe", "test", "apply">>}
===============================================================================
