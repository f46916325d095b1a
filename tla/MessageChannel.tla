--------------------------- MODULE MessageChannel ---------------------------
(***************************************************************************)
(* What a connection between two nodes promises to the engine above it:    *)
(* each end is handed, in order and once each, a beginning of what the     *)
(* other end has sent, and nothing more after it has closed.               *)
(***************************************************************************)
EXTENDS Naturals, Sequences, SequencesExt

CONSTANT Ends

VARIABLES sent,     \* sent[e]: the packets end e has written
          handled,  \* handled[e]: the packets end e has been handed
          isOpen    \* isOpen[e]: whether end e has not closed yet

chanVars == <<sent, handled, isOpen>>

Others(e) == Ends \ {e}

ChannelInit == /\ sent = [e \in Ends |-> << >>]
               /\ handled = [e \in Ends |-> << >>]
               /\ isOpen = [e \in Ends |-> TRUE]

\* One turn of an end: it may be handed the next packets, send some and close.
Turn(e) == /\ isOpen[e]
           /\ \A o \in Others(e) :
                /\ IsPrefix(handled[e], handled'[e])
                /\ IsPrefix(handled'[e], sent[o])
                /\ sent'[o] = sent[o]
                /\ handled'[o] = handled[o]
                /\ isOpen'[o] = isOpen[o]
           /\ IsPrefix(sent[e], sent'[e])
           /\ isOpen'[e] \in BOOLEAN

ChannelNext == \E e \in Ends : Turn(e)

ChannelSpec == ChannelInit /\ [][ChannelNext]_chanVars
=============================================================================
