---------------------------- MODULE Conversations ----------------------------
(***************************************************************************)
(* What the chat promises of conversations to the people who have them:    *)
(* whatever their tabs do, a conversation is a sequence of exchanges, each *)
(* a question with its answer under the next place.  A turn asks once, in  *)
(* a conversation of its user, and either says nothing or its exchange, in *)
(* one step, after all there is or in place of an exchange and all that    *)
(* follow it; an exchange only goes in such a step or with its             *)
(* conversation.  ChatTurn implements it.                                  *)
(***************************************************************************)
EXTENDS Integers

CONSTANTS Users, Turns

VARIABLES
    user,    \* who asks in a turn
    asked,   \* the turns that have asked
    asks,    \* the questions on their way
    open,    \* the conversations there are, each named by the turn that opened it
    threads  \* what was said in each

conversationVars == <<user, asked, asks, open, threads>>

\* from: the place of the question it replaces, 0 for none; stray: the conversation
\* it was asked in is gone.
Question(t, k, from) == [turn |-> t, home |-> k, from |-> from, stray |-> FALSE]

Exchange(t, at) == {[at |-> at, role |-> "user", turn |-> t],
                    [at |-> at + 1, role |-> "assistant", turn |-> t]}

\* Everything said is part of an exchange.
Whole(said) == \A m \in said : \E at \in {m.at, m.at - 1} :
                    m \in Exchange(m.turn, at) /\ Exchange(m.turn, at) \subseteq said

Init ==
    /\ user \in [Turns -> Users]
    /\ asked = {} /\ asks = {}
    /\ open = {} /\ threads = [k \in Turns |-> {}]

\* In a new conversation, or in one of the same user.
Ask(t) ==
    /\ t \notin asked /\ asked' = asked \cup {t}
    /\ \E q \in asks' \ asks :
        /\ asks' = asks \cup {q}
        /\ q = Question(t, q.home, q.from)
        /\ q.home = t \/ (q.home \in open /\ user[q.home] = user[t])
    /\ UNCHANGED <<user, open, threads>>

Open(q) ==
    /\ q.home = q.turn /\ ~q.stray /\ q.turn \notin open
    /\ open' = open \cup {q.turn}
    /\ UNCHANGED <<user, asked, asks, threads>>

\* A stray question may turn up in any conversation: the code finds its own by an id,
\* and ids are given again.
Say(q, k) ==
    /\ k \in open /\ (q.stray \/ k = q.home)
    /\ LET kept == {m \in threads[k] : q.from = 0 \/ m.at < q.from}
       IN  /\ Whole(kept)
           /\ \E m \in threads'[k] :
                /\ \A n \in kept : n.at < m.at
                /\ threads' = [threads EXCEPT ![k] = kept \cup Exchange(q.turn, m.at)]
    /\ asks' = asks \ {q}
    /\ UNCHANGED <<user, asked, open>>

\* Clients that leave, calls that fail, the end of the process.
GiveUp ==
    /\ asks' \subseteq asks
    /\ UNCHANGED <<user, asked, open, threads>>

Close(k) ==
    /\ k \in open /\ open' = open \ {k}
    /\ threads' = [threads EXCEPT ![k] = {}]
    /\ asks' = {[q EXCEPT !.stray = @ \/ q.home = k] : q \in asks}
    /\ UNCHANGED <<user, asked>>

Next ==
    \/ \E t \in Turns : Ask(t)
    \/ \E q \in asks : Open(q) \/ \E k \in open : Say(q, k)
    \/ GiveUp
    \/ \E k \in open : Close(k)

Spec == Init /\ [][Next]_conversationVars
=============================================================================
