------------------------------ MODULE DurableMap ------------------------------
(***************************************************************************)
(* What a cache with a persistent copy promises: every client changes its  *)
(* own view at once, and a change stays unsaved until the store holds it.  *)
(* AutocompleteLruCache implements it.                                     *)
(*                                                                         *)
(* The view of a client may also be apart from the store, for the keys of  *)
(* changes that were dropped and of those another client has saved.        *)
(***************************************************************************)
CONSTANTS Clients, Keys, Absent

VARIABLES
  store,   \* what is saved
  joined,  \* the clients that have a view
  view,    \* what each of them sees
  unsaved, \* keys whose change it has still to save
  apart    \* keys on which it may differ from the store all the same

mapVars == <<store, joined, view, unsaved, apart>>

MapInit ==
  /\ store = [k \in Keys |-> Absent]
  /\ joined = {}
  /\ view = [c \in Clients |-> store]
  /\ unsaved = [c \in Clients |-> {}]
  /\ apart = [c \in Clients |-> {}]

OthersKeep(c, f, g) == \A d \in Clients \ {c} : g[d] = f[d]

\* A client loads the store.
Join(c) ==
  /\ c \notin joined
  /\ joined' = joined \cup {c}
  /\ view' = [view EXCEPT ![c] = store]
  /\ unsaved' = [unsaved EXCEPT ![c] = {}]
  /\ apart' = [apart EXCEPT ![c] = {}]
  /\ UNCHANGED store

\* It changes its view, and every key that it changes is unsaved.
Change(c) ==
  /\ c \in joined
  /\ \A k \in Keys : view'[c][k] # view[c][k] => k \in unsaved'[c]
  /\ unsaved[c] \subseteq unsaved'[c]
  /\ OthersKeep(c, view, view') /\ OthersKeep(c, unsaved, unsaved')
  /\ UNCHANGED <<store, joined, apart>>

\* Some unsaved changes reach the store, all at once.
Save(c) ==
  /\ c \in joined
  /\ unsaved'[c] \subseteq unsaved[c]
  /\ \A k \in unsaved[c] \ unsaved'[c] : store'[k] = view[c][k]
  /\ \A k \in Keys \ unsaved[c] : store'[k] = store[k]
  /\ apart[c] \ unsaved[c] \subseteq apart'[c]
  /\ \A d \in joined \ {c} :
       apart[d] \cup {k \in Keys : store'[k] # store[k]} \subseteq apart'[d]
  /\ OthersKeep(c, unsaved, unsaved')
  /\ UNCHANGED <<joined, view>>

\* Some unsaved changes are given up.
Drop(c) ==
  /\ c \in joined
  /\ unsaved'[c] \subseteq unsaved[c]
  /\ apart[c] \cup (unsaved[c] \ unsaved'[c]) \subseteq apart'[c]
  /\ OthersKeep(c, unsaved, unsaved') /\ OthersKeep(c, apart, apart')
  /\ UNCHANGED <<store, joined, view>>

\* Only the store outlives a client.
Leave(c) ==
  /\ c \in joined
  /\ joined' = joined \ {c}
  /\ OthersKeep(c, view, view') /\ OthersKeep(c, unsaved, unsaved')
  /\ OthersKeep(c, apart, apart')
  /\ UNCHANGED store

MapNext == \E c \in Clients : Join(c) \/ Change(c) \/ Save(c) \/ Drop(c) \/ Leave(c)

MapSpec == MapInit /\ [][MapNext]_mapVars

\* What is neither unsaved nor apart is in the store.
MapAgrees ==
  \A c \in joined : \A k \in Keys \ (unsaved[c] \cup apart[c]) :
    store[k] = view[c][k]
===============================================================================
