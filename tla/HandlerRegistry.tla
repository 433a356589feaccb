--------------------------- MODULE HandlerRegistry ---------------------------
(***************************************************************************)
(* ClassHandlerRegistry: handlers are asked in the order of registration,  *)
(* and the answer for a class, none included, is cached.                   *)
(***************************************************************************)
EXTENDS Integers, SequencesExt

CONSTANTS Handlers, Classes,
          CanHandle,        \* the classes of each handler
          NoHandler, NotCached, MaxHandlers   \* the last bounds the registrations of the model

VARIABLES handlers, cached

Init == handlers = <<>> /\ cached = [c \in Classes |-> NotCached]

Register(h) ==
  /\ Len(handlers) < MaxHandlers
  /\ handlers' = Append(handlers, h)
  /\ cached' = [c \in Classes |-> NotCached]

FirstFor(c) ==
  LET able == {i \in DOMAIN handlers : c \in CanHandle[handlers[i]]}
  IN IF able = {} THEN NoHandler ELSE handlers[CHOOSE i \in able : \A j \in able : i <= j]

FindHandler(c) ==
  /\ cached[c] = NotCached
  /\ cached' = [cached EXCEPT ![c] = FirstFor(c)]
  /\ UNCHANGED handlers

ClearAll == handlers' = <<>> /\ cached' = [c \in Classes |-> NotCached]
\* By _cleanup_parse_memory, at the end of each parse.
ResetCache == cached' = [c \in Classes |-> NotCached] /\ UNCHANGED handlers

Next == (\E h \in Handlers : Register(h)) \/ (\E c \in Classes : FindHandler(c)) \/ ClearAll \/ ResetCache

-----------------------------------------------------------------------------
\* A cached answer is the one the handlers registered now would give, whichever
\* were registered after it was first asked for.
CachedIsCurrent == \A c \in Classes : cached[c] \in {NotCached, FirstFor(c)}
=============================================================================
