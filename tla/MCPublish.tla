------------------------------- MODULE MCPublish -------------------------------
(* Two commands at once, each with a text, an image or a carousel of two. *)
EXTENDS Publish, TLC

MCTotal == [k \in Quotas |-> 1]

=============================================================================
