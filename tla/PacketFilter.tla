----------------------------- MODULE PacketFilter -----------------------------
(***************************************************************************)
(* What the core promises, one packet at a time and without its clock: an  *)
(* authentic admin packet replaces the whole configuration at once, a      *)
(* probe is answered with the configuration and the counters in force, any *)
(* other packet is judged section by section and, if every section accepts *)
(* it, answered according to the reply type.                               *)
(***************************************************************************)
EXTENDS Judgement

CONSTANTS BootFilters,  \* the configurations at power-up
          Packets,      \* the packets that arrive
          None          \* no packet

VARIABLES
    cfg,    \* the configuration in force
    cnt,    \* the five counters
    cur,    \* the packet being judged, or None
    stage,  \* "idle", "classify", a section, or "answer"
    reply,  \* the answer that is decided but not yet out, or None
    out     \* the packet handed to the output side in this instant, or None

pfvars == <<cfg, cnt, cur, stage, reply, out>>

-------------------------------------------------------------------------------
\* The counters a packet moves when it leaves section x accepted.
Counted(n, x) == CASE x = "dstMAC"  -> [n EXCEPT !.smc = @ + 1]
                   [] x = "dstIP"   -> [n EXCEPT !.sic = @ + 1]
                   [] x = "dstPort" -> [n EXCEPT !.spc = @ + 1]
                   [] x = "dns"     -> [n EXCEPT !.sfc = @ + 1]
                   [] OTHER         -> n

-------------------------------------------------------------------------------

Init == /\ cfg \in BootFilters
        /\ cnt = [stc |-> 0, sfc |-> 0, smc |-> 0, sic |-> 0, spc |-> 0]
        /\ cur = None /\ stage = "idle" /\ reply = None /\ out = None

Accept(p) == /\ stage = "idle" /\ out = None
             /\ cur' = p /\ stage' = "classify"
             /\ UNCHANGED <<cfg, cnt, reply, out>>

Admin == /\ stage = "classify" /\ cur.addr["dstMAC"] = AdminMAC
         /\ cfg' = IF Authentic(cur) THEN cur.cfg ELSE cfg
         /\ cur' = None /\ stage' = "idle"
         /\ UNCHANGED <<cnt, reply, out>>

Query == /\ stage = "classify" /\ cur.addr["dstMAC"] # AdminMAC
         /\ cur.addr["dstMAC"] = QueryMAC
         /\ reply' = QueryReply(cfg, cnt, cur)
         /\ cur' = None /\ stage' = "answer"
         /\ UNCHANGED <<cfg, cnt, out>>

Normal == /\ stage = "classify" /\ cur.addr["dstMAC"] \notin {AdminMAC, QueryMAC}
          /\ cnt' = [cnt EXCEPT !.stc = @ + 1]
          /\ stage' = "srcMAC"
          /\ UNCHANGED <<cfg, cur, reply, out>>

Pass(x) == /\ stage = x /\ Accepts(cfg, cur, x)
           /\ cnt' = Counted(cnt, x)
           /\ IF x = "dns"
              THEN reply' = Reply(cfg, cur) /\ cur' = None /\ stage' = "answer"
              ELSE stage' = After(x) /\ UNCHANGED <<reply, cur>>
           /\ UNCHANGED <<cfg, out>>

Fail(x) == /\ stage = x /\ ~Accepts(cfg, cur, x)
           /\ cur' = None /\ stage' = "idle"
           /\ UNCHANGED <<cfg, cnt, reply, out>>

Answer == /\ stage = "answer"
          /\ out' = reply /\ reply' = None /\ stage' = "idle"
          /\ UNCHANGED <<cfg, cnt, cur>>

Withdraw == /\ out # None
            /\ out' = None
            /\ UNCHANGED <<cfg, cnt, cur, stage, reply>>

Next == \/ \E p \in Packets : Accept(p)
        \/ Admin \/ Query \/ Normal
        \/ \E x \in Sections : Pass(x) \/ Fail(x)
        \/ Answer \/ Withdraw

Spec == Init /\ [][Next]_pfvars
===============================================================================
