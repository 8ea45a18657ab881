------------------------------ MODULE Channel ------------------------------
(***************************************************************************)
(* The interest bookkeeping of Channel (WebServer/Channel.h) and the part  *)
(* of Epoll that reads and writes it (WebServer/Epoll.cpp).                *)
(*                                                                         *)
(* A Channel keeps two event masks: m_events, which a handler builds while *)
(* it runs, and m_lastEvents, the mask the object believes the kernel has. *)
(* Epoll::epoll_mod calls epoll_ctl only when the two differ, so a channel *)
(* whose m_lastEvents is wrong is silently never (re)armed.                *)
(*                                                                         *)
(* A mask is a set of flags; `events_ |= EPOLLIN' is a union.              *)
(***************************************************************************)

Flag == {"IN", "OUT", "ET", "ONESHOT"}

\* The two masks of a Channel object.
ChannelType == [events : SUBSET Flag, lastEvents : SUBSET Flag]

\* Channel::Channel: both masks start at 0.
NewChannel == [events |-> {}, lastEvents |-> {}]

\* Channel::setEvents, and every `m_events = ...' in the handlers.
SetEvents(ch, mask) == [ch EXCEPT !.events = mask]

\* The test half of Channel::EqualAndUpdateLastEvents.
SameAsLast(ch) == ch.lastEvents = ch.events

\* The assignment half of Channel::EqualAndUpdateLastEvents.
UpdateLastEvents(ch) == [ch EXCEPT !.lastEvents = ch.events]

\* The kernel's mask after Epoll::epoll_mod succeeded: epoll_ctl is skipped
\* when the channel believes that nothing changed.
ModMask(ch, kernelMask) == IF SameAsLast(ch) THEN kernelMask ELSE ch.events
=============================================================================
