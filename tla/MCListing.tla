------------------------------ MODULE MCListing ------------------------------
(* Three rows, pages of one or two, a filter on a state that rows enter and    *)
(* leave, and limits outside the allowed range.                                *)
EXTENDS Listing

CONSTANT any

Requested == {-1, 1, 99}
=============================================================================
