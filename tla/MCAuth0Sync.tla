----------------------------- MODULE MCAuth0Sync -----------------------------
(* Auth0Sync on a few users and organizations.  Neither users nor          *)
(* organizations nor handlers are told apart by anything but their names.  *)
EXTENDS Auth0Sync, TLC

Interchangeable ==
  Permutations(User) \union Permutations(Org) \union Permutations(Handler)
=============================================================================
