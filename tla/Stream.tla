------------------------------- MODULE Stream -------------------------------
(***************************************************************************)
(* What a file transfer promises to those who asked for it: the headers,   *)
(* then the chunks of the file in their order, then one end.  A transfer   *)
(* may be given up at any time, and an end may be followed by one cancel   *)
(* of a timer that was late.  The node may die.  A transfer that was asked *)
(* for does not wait for its headers for ever.                             *)
(*                                                                         *)
(* Streaming implements it, and so does a chain of two nodes (Relay).      *)
(***************************************************************************)
EXTENDS Naturals, Sequences

CONSTANTS
    Client,     \* those who ask, once each
    Chunks      \* how many chunks a file has

VARIABLES
    up,         \* the node lives
    asked,      \* clients that asked
    headers,    \* clients that have the headers
    out         \* what a client was given

vars == <<up, asked, headers, out>>

Content(chunk) == [op |-> "content", chunk |-> chunk]
Finish == [op |-> "finish"]
Cancel == [op |-> "cancel"]

Ended(c) == \E i \in DOMAIN out[c] : out[c][i] \in {Finish, Cancel}

\* A client that the node still owes something.
Open(c) == up /\ c \in asked /\ ~Ended(c)

Give(c, e) == out' = [out EXCEPT ![c] = Append(@, e)]

-----------------------------------------------------------------------------
Init ==
    /\ up = TRUE
    /\ asked = {}
    /\ headers = {}
    /\ out = [c \in Client |-> <<>>]

Ask(c) ==
    /\ up /\ c \notin asked
    /\ asked' = asked \cup {c}
    /\ UNCHANGED <<up, headers, out>>

\* Asked for and given up in one step.
Reject(c) ==
    /\ up /\ c \notin asked
    /\ asked' = asked \cup {c}
    /\ Give(c, Cancel)
    /\ UNCHANGED <<up, headers>>

SendHeaders(c) ==
    /\ Open(c) /\ c \notin headers
    /\ headers' = headers \cup {c}
    /\ UNCHANGED <<up, asked, out>>

Deliver(c) ==
    /\ Open(c) /\ c \in headers
    /\ Len(out[c]) < Chunks
    /\ Give(c, Content(Len(out[c]) + 1))
    /\ UNCHANGED <<up, asked, headers>>

Complete(c) ==
    /\ Open(c) /\ c \in headers
    /\ Len(out[c]) = Chunks
    /\ Give(c, Finish)
    /\ UNCHANGED <<up, asked, headers>>

GiveUp(c) ==
    /\ Open(c)
    /\ Give(c, Cancel)
    /\ UNCHANGED <<up, asked, headers>>

\* A late timer gives up what has ended already, once.
Repeat(c) ==
    /\ up
    /\ Ended(c)
    /\ \A i \in DOMAIN out[c] : out[c][i] \in {Finish, Cancel} => i = Len(out[c])
    /\ Give(c, Cancel)
    /\ UNCHANGED <<up, asked, headers>>

Die ==
    /\ up
    /\ up' = FALSE
    /\ UNCHANGED <<asked, headers, out>>

-----------------------------------------------------------------------------
Next ==
    \/ Die
    \/ \E c \in Client :
          \/ Ask(c) \/ Reject(c) \/ SendHeaders(c)
          \/ Deliver(c) \/ Complete(c) \/ GiveUp(c) \/ Repeat(c)

\* A client that waits for its headers is answered one way or the other.
Answer(c) == c \notin headers /\ (SendHeaders(c) \/ GiveUp(c))

Safe == Init /\ [][Next]_vars

Spec == Safe /\ \A c \in Client : WF_vars(Answer(c))

=============================================================================
