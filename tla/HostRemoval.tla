---------------------------- MODULE HostRemoval -----------------------------
(***************************************************************************)
(* What the loop of DomainService.RemoveAllDomainHosts does to a domain    *)
(* with k hosts, in closed form.  Module HostDetach follows the loop step  *)
(* by step and is checked against these two operators; DomainRequests uses *)
(* them where the loop is one step of a longer handler.                    *)
(***************************************************************************)
EXTENDS Integers

\* How many of the k associations the loop deletes.
Detached(k) == IF k = 0 THEN 0 ELSE k - (k - 1) \div 2

\* Whether it ends early with ErrHostNotFound, before the domain is saved.
DetachFails(k) == k > 2
=============================================================================
