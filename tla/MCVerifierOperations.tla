------------------------ MODULE MCVerifierOperations ------------------------
EXTENDS VerifierOperations
CONSTANTS q1, q2, r1

Optional(kind) == [kind |-> kind, optional |-> TRUE]
Required(kind) == [kind |-> kind, optional |-> FALSE]

MCPayload ==
  [q \in Requests |->
     IF q = q1
     THEN [run |-> r1, steps |-> <<Optional("mutation")>>, asset |-> TRUE, finalize |-> TRUE]
     ELSE [run |-> r1, steps |-> <<Optional("diagnostic"), Required("mutation")>>,
           asset |-> FALSE, finalize |-> FALSE]]
=============================================================================
