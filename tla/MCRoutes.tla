------------------------------- MODULE MCRoutes -------------------------------
(***************************************************************************)
(* An instance of Routes: which types have routes at the same time.        *)
(***************************************************************************)
EXTENDS Routes

\* One type at a time; types called by handle and by path; types whose callers
\* lock the entry exclusively and shared.
Rows ==
  {{y} : y \in AllTypes} \cup {{"sync", "setxattr"}, {"setmetadata", "getxattr"}}
===============================================================================
