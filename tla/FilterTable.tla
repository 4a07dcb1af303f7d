------------------------------ MODULE FilterTable ------------------------------
(***************************************************************************)
(* What editing a configuration promises: seven tables of at most          *)
(* FilterDepth entries, black or white, without an order.  An edit puts in *)
(* or takes out one entry of one table, or turns one table or the reply    *)
(* type; a load, and at launch the board's answer, replaces all of it.     *)
(***************************************************************************)
EXTENDS Naturals, Bags

CONSTANTS Sections, FilterDepth,
          Entry(_),  \* what an edit can enter in a section
          Initial,   \* the configuration at the start
          Tests      \* the configurations of the self tests

VARIABLES entries,  \* of a section: the bag of its entries
          white,    \* of a section: it is a whitelist
          reply,    \* the reply type
          saved,    \* the configurations in files
          asking    \* the board is being asked for its configuration, at launch

table == <<entries, white, reply>>
tablevars == <<table, saved, asking>>

One(e) == SetToBag({e})

Current == [entries |-> entries, white |-> white, reply |-> reply]

Init == /\ Current = Initial
        /\ saved = {} /\ asking \in BOOLEAN

Add(x, e) == /\ BagCardinality(entries[x]) < FilterDepth
             /\ entries' = [entries EXCEPT ![x] = @ (+) One(e)]
             /\ UNCHANGED <<white, reply, saved, asking>>

Remove(x, e) == /\ entries' = [entries EXCEPT ![x] = @ (-) One(e)]
                /\ UNCHANGED <<white, reply, saved, asking>>

Turn(x, b) == /\ white' = [white EXCEPT ![x] = b]
              /\ UNCHANGED <<entries, reply, saved, asking>>

TurnReply(b) == /\ reply' = b
                /\ UNCHANGED <<entries, white, saved, asking>>

\* A save, also that of a self test, may overwrite an earlier one.
Save == /\ \E kept \in SUBSET saved, c \in {Current} \cup Tests : saved' = kept \cup {c}
        /\ UNCHANGED <<table, asking>>

Load == /\ Current' \in saved
        /\ UNCHANGED <<saved, asking>>

\* Once, at launch, all of it is replaced by what the board answers.
Adopt == /\ asking /\ asking' = FALSE
         /\ saved' = saved

Next == \/ \E x \in Sections : \E e \in Entry(x) : Add(x, e)
        \/ \E x \in Sections : \E e \in BagToSet(entries[x]) : Remove(x, e)
        \/ \E x \in Sections, b \in BOOLEAN : Turn(x, b)
        \/ \E b \in {0, 1} : TurnReply(b)
        \/ Save \/ Load \/ Adopt

Spec == Init /\ [][Next]_tablevars
===============================================================================
