------------------------------- MODULE PingRound -------------------------------
(***************************************************************************)
(* The loop of mpSelect::send_ping_handler call by call: get_path_item     *)
(* walks the lists with a cursor that it keeps in two static variables,    *)
(* shared by the tables of all agents, while update_ping_info changes the  *)
(* paths the cursor is among.  The other modules take a round as one step, *)
(* with what pings and ping_round say of it.                               *)
(***************************************************************************)
EXTENDS MpTypes

CONSTANTS
  Agent,      \* the agents; each has a table
  Nobody,     \* no agent
  Tables,     \* the tables an agent may start with
  MaxRounds   \* bound: rounds of pings

ASSUME RoundAssumption ==
  /\ Nobody \notin Agent /\ MaxRounds \in Nat
  /\ \A T \in Tables : Good(T)

VARIABLES
  table,    \* rtable_ of every agent
  s, p,     \* the static cursor: position of the object and of the path, 0 NULL
  busy,     \* the agent in send_ping_handler, or Nobody
  rounds,   \* rounds begun; the clock
  sent,     \* the pings of this round, in order
  before    \* for the properties: the tables before this round

vars == <<table, s, p, busy, rounds, sent, before>>

Init ==
  /\ table \in [Agent -> Tables]
  /\ s = 0 /\ p = 0 /\ busy = Nobody /\ rounds = 0
  /\ sent = << >> /\ before = table

-----------------------------------------------------------------------------
(* Variant: every object is begun with its first path, and p stays where   *)
(* it is at the end.                                                       *)
get_path_item_left(T) ==
  LET s0   == IF p = 0 /\ s = 0 THEN 1 ELSE s
      on   == {i \in s0..Len(T.mptable) :
                 IF i = s0 /\ p # 0 THEN p < Len(T.mptable[i].paths)
                 ELSE T.mptable[i].paths # << >>}
      next == First(on)
  IN  IF T.mptable = << >> THEN [found |-> FALSE, s |-> s, p |-> p]
      ELSE [found |-> next # 0, s |-> next,
            p |-> IF next = 0 THEN p
                  ELSE IF next = s0 /\ p # 0 THEN p + 1 ELSE 1]

(* The next path at or after the cursor: the following one of its object,  *)
(* or the first of the next object that has any.  With none left both      *)
(* variables are NULL again.                                               *)
get_path_item(T) ==
  LET s0   == IF p = 0 /\ s = 0 THEN 1 ELSE s
      on   == {i \in s0..Len(T.mptable) :
                 IF i = s0 /\ p # 0 THEN p < Len(T.mptable[i].paths)
                 ELSE T.mptable[i].paths # << >>}
      next == First(on)
  IN  IF T.mptable = << >> THEN [found |-> FALSE, s |-> s, p |-> p]
      ELSE [found |-> next # 0, s |-> next,
            p |-> IF next = 0 THEN 0
                  ELSE IF next = s0 /\ p # 0 THEN p + 1 ELSE 1]

Begin(a) ==
  /\ busy = Nobody /\ rounds < MaxRounds
  /\ busy' = a
  /\ rounds' = rounds + 1
  /\ sent' = << >> /\ before' = table
  /\ UNCHANGED <<table, s, p>>

(* Variant: the table is updated first and the ping made from it. *)
SendPing_after_update(a) ==
  LET c == get_path_item(table[a])
      T == update_ping_info(table[a], table[a].mptable[c.s].select_addr,
             table[a].mptable[c.s].paths[c.p].s_intf,
             table[a].mptable[c.s].paths[c.p].d_intf, rounds)
      m == T.mptable[c.s]
      q == m.paths[c.p]
  IN  /\ busy = a /\ c.found
      /\ s' = c.s /\ p' = c.p
      /\ sent' = Append(sent, [select |-> m.select_addr, s_intf |-> q.s_intf,
                               d_intf |-> q.d_intf, ping_seq |-> q.ping_seq,
                               nth |-> c.p])
      /\ table' = [table EXCEPT ![a] = T]
      /\ UNCHANGED <<busy, rounds, before>>

(* One turn of the loop: the ping is made from the copy get_path_item gave. *)
SendPing(a) ==
  LET c == get_path_item(table[a])
      m == table[a].mptable[c.s]
      q == m.paths[c.p]
  IN  /\ busy = a /\ c.found
      /\ s' = c.s /\ p' = c.p
      /\ sent' = Append(sent, [select |-> m.select_addr, s_intf |-> q.s_intf,
                               d_intf |-> q.d_intf, ping_seq |-> q.ping_seq,
                               nth |-> c.p])
      /\ table' = [table EXCEPT ![a] =
                     update_ping_info(@, m.select_addr, q.s_intf, q.d_intf, rounds)]
      /\ UNCHANGED <<busy, rounds, before>>

End(a) ==
  LET c == get_path_item(table[a])
  IN  /\ busy = a /\ ~c.found
      /\ s' = c.s /\ p' = c.p
      /\ busy' = Nobody
      /\ UNCHANGED <<table, rounds, sent, before>>

Next == \E a \in Agent : Begin(a) \/ SendPing(a) \/ End(a)

Spec == Init /\ [][Next]_vars

-----------------------------------------------------------------------------
(* The cursor is NULL between rounds, so that no round goes on where one   *)
(* in another agent's table stopped, and inside a round it is on a path of *)
(* the table the round is for.                                             *)
CursorAtRest ==
  IF busy = Nobody \/ sent = << >> THEN s = 0 /\ p = 0
  ELSE /\ s \in DOMAIN table[busy].mptable
       /\ p \in DOMAIN table[busy].mptable[s].paths

(* A round of a whole handler is what pings and ping_round say: one ping   *)
(* for every path, with the number the path had before the round, also     *)
(* where a path is in the list twice; and no other agent's table changes.  *)
RoundIsAtomic ==
  [][\A a \in Agent : End(a) =>
       /\ {sent[i] : i \in DOMAIN sent} = pings(before[a])
       /\ Len(sent) = Cardinality(pings(before[a]))
       /\ table = [before EXCEPT ![a] = ping_round(@, rounds)]]_vars
===============================================================================
