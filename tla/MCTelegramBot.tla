--------------------------- MODULE MCTelegramBot ---------------------------
(***************************************************************************)
(* A small instance of TelegramBot: the administrator, one client who is   *)
(* new or not, and one who is banned.                                      *)
(***************************************************************************)
EXTENDS TelegramBot

CONSTANTS Client, Foe

Msg(kind, who) == [kind |-> kind, who |-> who, what |-> "bablo", n |-> 0, of |-> None]

Protocol ==
  {[Msg("number", Admin) EXCEPT !.n = 1],
   [Msg("number", Admin) EXCEPT !.n = 1, !.what = "credit"],
   [Msg("forward", Admin) EXCEPT !.n = 2, !.of = Client],
   Msg("forward", Admin)}

\* one of each kind that the loop tells apart
SmallTalk ==
  Protocol \cup {Msg("contact", Client), Msg("command", Client), Msg("invite", Client),
                Msg("edit", Client), Msg("command", Foe),
                [Msg("post", Admin) EXCEPT !.n = 2, !.of = Client]}

\* Two messages of any kind, or more if they are all of the administrator's
\* protocol.
Bound ==
  \/ Len(updates') + orders' <= 2
  \/ orders' = 0 /\ \A i \in DOMAIN updates' : updates'[i] \in Protocol

\* What Telegram and its clients do while a handler is under way or the
\* process is stopping might as well come before: those steps neither see nor
\* change what the handler works on.
PollsFirst ==
  up /\ (work.ops # <<>> \/ alive.st # "running") => UNCHANGED <<updates, confirmed, offset>>

=============================================================================
