--------------------------- MODULE MCServerSession ---------------------------
(***************************************************************************)
(* Instances of ServerSession for TLC.                                     *)
(***************************************************************************)
EXTENDS ServerSession

On(resource) == [resource |-> resource, port |-> TRUE]
Off(resource) == [resource |-> resource, port |-> FALSE]

\* One or two channels, whose ports come and go, and one whose engine is
\* exhausted or whose resource is unknown.
MCOffers ==
    {<<On("available")>>, <<Off("available")>>,
     <<On("available"), On("available")>>, <<Off("available"), On("available")>>,
     <<On("available"), On("exhausted")>>, <<Off("available"), On("exhausted")>>,
     <<On("available"), On("unknown")>>}

=============================================================================
