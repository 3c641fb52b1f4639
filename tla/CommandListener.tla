--------------------------- MODULE CommandListener ---------------------------
(***************************************************************************)
(* tws_command_listener: commands arrive over a public topic; recreate-    *)
(* live is answered with a one-time nonce, and only its confirmation       *)
(* recreates the live container.  One thread reads the stream and handles  *)
(* a command to its end, so that commands wait in the stream meanwhile,    *)
(* and are handled by the clock of that time.                              *)
(***************************************************************************)
EXTENDS Integers, Sequences, FiniteSets

CONSTANTS
    ConfirmTtl,     \* confirm_ttl_s
    CooldownTicks,  \* cooldown_s
    PollTicks,      \* health_wait_s, spent on polling the container
    StreamMax,      \* bound on the commands that wait in the stream
    NonceMax,       \* bound on the nonces of a process
    TimeMax         \* bound on time

ASSUME ListenerAssumption ==
    /\ ConfirmTtl \in Nat \ {0} /\ CooldownTicks \in Nat \ {0} /\ PollTicks \in Nat
    /\ StreamMax \in Nat /\ NonceMax \in Nat /\ TimeMax \in Nat

VARIABLES
    now,            \* monotonic()
    stream,         \* commands that arrived and were not read: 0 is recreate-live,
                    \* n > 0 confirms the n-th nonce
    nonce, nonceExpires,   \* the open nonce, or 0
    cooldownUntil,
    nonces,         \* nonces generated so far
    polling,        \* ticks until the health poll gives up, or Idle
    connected,      \* the stream is open
    recreates       \* history: when this process recreated

listenerVars == <<now, stream, nonce, nonceExpires, cooldownUntil, nonces, polling,
                  connected, recreates>>

NotPolling == -1

-----------------------------------------------------------------------------
\* Someone posts a command: it reaches the stream if that is open, and is lost if not.
\* A confirmation may be posted again, or name a nonce that was never pushed.
Post(command) ==
    /\ connected /\ Len(stream) < StreamMax
    /\ stream' = Append(stream, command)
    /\ UNCHANGED <<now, nonce, nonceExpires, cooldownUntil, nonces, polling, connected,
                   recreates>>

NextIs(P) == connected /\ polling = NotPolling /\ stream # <<>> /\ P

\* _on_trigger, in the cooldown: refused.
RefuseTrigger ==
    /\ NextIs(Head(stream) = 0 /\ now < cooldownUntil)
    /\ stream' = Tail(stream)
    /\ UNCHANGED <<now, nonce, nonceExpires, cooldownUntil, nonces, polling, connected,
                   recreates>>

\* Faulty variant: a nonce is handed out in the cooldown as well.
IssueNonceAlways ==
    /\ NextIs(Head(stream) = 0) /\ nonces < NonceMax
    /\ stream' = Tail(stream)
    /\ nonces' = nonces + 1 /\ nonce' = nonces' /\ nonceExpires' = now + ConfirmTtl
    /\ UNCHANGED <<now, cooldownUntil, polling, connected, recreates>>

\* _on_trigger: a new nonce takes the place of the last one.
IssueNonce ==
    /\ NextIs(Head(stream) = 0 /\ now >= cooldownUntil) /\ nonces < NonceMax
    /\ stream' = Tail(stream)
    /\ nonces' = nonces + 1 /\ nonce' = nonces' /\ nonceExpires' = now + ConfirmTtl
    /\ UNCHANGED <<now, cooldownUntil, polling, connected, recreates>>

Confirms == Head(stream) > 0 /\ Head(stream) = nonce /\ now < nonceExpires

\* _on_confirm: not the open nonce, or too late.
RefuseConfirm ==
    /\ NextIs(Head(stream) > 0 /\ ~Confirms)
    /\ stream' = Tail(stream)
    /\ UNCHANGED <<now, nonce, nonceExpires, cooldownUntil, nonces, polling, connected,
                   recreates>>

\* _on_confirm, _do_recreate: the nonce is used up and the cooldown starts, also when
\* the script fails; if it does not, the container is polled.
Recreate ==
    /\ NextIs(Confirms)
    /\ stream' = Tail(stream)
    /\ nonce' = 0 /\ nonceExpires' = 0
    /\ cooldownUntil' = now + CooldownTicks
    /\ recreates' = Append(recreates, now)
    /\ polling' \in {NotPolling, PollTicks}
    /\ UNCHANGED <<now, nonces, connected>>

\* _poll_health: healthy, or no more polls.
PollEnds ==
    /\ polling # NotPolling /\ polling' = NotPolling
    /\ UNCHANGED <<now, stream, nonce, nonceExpires, cooldownUntil, nonces, connected,
                   recreates>>

TimeGoesOn ==
    /\ now < TimeMax /\ now' = now + 1
    /\ polling # 0 /\ polling' = IF polling = NotPolling THEN polling ELSE polling - 1
    /\ UNCHANGED <<stream, nonce, nonceExpires, cooldownUntil, nonces, connected, recreates>>

\* The stream breaks; it is opened again without the commands of the meantime.
StreamBreaks ==
    /\ connected /\ polling = NotPolling /\ connected' = FALSE /\ stream' = <<>>
    /\ UNCHANGED <<now, nonce, nonceExpires, cooldownUntil, nonces, polling, recreates>>

StreamReopens ==
    /\ ~connected /\ connected' = TRUE
    /\ UNCHANGED <<now, stream, nonce, nonceExpires, cooldownUntil, nonces, polling,
                   recreates>>

\* SIGTERM and a new start: nonce and cooldown are in memory only.
ListenerRestarts ==
    /\ stream' = <<>> /\ connected' = FALSE /\ polling' = NotPolling
    /\ nonce' = 0 /\ nonceExpires' = 0 /\ cooldownUntil' = 0 /\ recreates' = <<>>
    /\ UNCHANGED <<now, nonces>>

ListenerInit ==
    /\ now = 0 /\ stream = <<>> /\ nonce = 0 /\ nonceExpires = 0 /\ cooldownUntil = 0
    /\ nonces = 0 /\ polling = NotPolling /\ connected = FALSE /\ recreates = <<>>

ListenerNext ==
    \/ \E command \in 0..nonces : Post(command)
    \/ RefuseTrigger \/ IssueNonce \/ RefuseConfirm \/ Recreate \/ PollEnds
    \/ TimeGoesOn \/ StreamBreaks \/ StreamReopens \/ ListenerRestarts

ListenerSpec == ListenerInit /\ [][ListenerNext]_listenerVars

-----------------------------------------------------------------------------
ListenerTypeOK ==
    /\ now \in 0..TimeMax /\ nonces \in 0..NonceMax /\ nonce \in 0..nonces
    /\ Len(stream) <= StreamMax /\ \A i \in DOMAIN stream : stream[i] \in 0..nonces
    /\ nonceExpires \in 0..(TimeMax + ConfirmTtl)
    /\ cooldownUntil \in 0..(TimeMax + CooldownTicks)
    /\ polling \in NotPolling..PollTicks /\ connected \in BOOLEAN

\* One process never recreates twice in a cooldown, nor twice for one nonce, although a
\* confirmation does not look at the cooldown, buttons are pressed again, and commands
\* wait in the stream while a recreate is under way.
OneRecreatePerWindow ==
    /\ \A i, j \in DOMAIN recreates : i < j => recreates[j] >= recreates[i] + CooldownTicks
    /\ Len(recreates) <= nonces
    /\ nonce # 0 => nonceExpires >= cooldownUntil + ConfirmTtl
=============================================================================
