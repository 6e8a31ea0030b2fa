----------------------------- MODULE RemoteShare -----------------------------
(***************************************************************************)
(* Sharing the daemon through a public tunnel: RemoteAccessManager         *)
(* (lw-api remote.rs), its tunnel processes and the helper it installs     *)
(* (remote/tunnel.rs), invites (remote/invite.rs) and the handlers of      *)
(* rest/remote.rs, which run concurrently, and end early when their client *)
(* goes away. `active_share` and `tunnel_child` have a lock each, and      *)
(* every step below is what happens under one of them, or outside both.    *)
(*                                                                         *)
(*   share            active_share; a share is named after its tunnel.     *)
(*                    History: sessions given for its invite, wrong PINs   *)
(*                    tried on it                                          *)
(*   child            tunnel_child                                         *)
(*   tunnels          the tunnel processes                                 *)
(*   binary           the managed cloudflared exists, whole or not         *)
(*   req              the handlers: what they do, where they are, the      *)
(*                    provider and the tunnel they are at                  *)
(*   crashes          of the daemon                                        *)
(*   tainted          history: tunnels whose start was cut off, or ran     *)
(*                    while another request changed the share              *)
(***************************************************************************)
EXTENDS Naturals, Sequences, FiniteSets

CONSTANTS
    None,
    Requests,         \* handlers that run at once
    ProviderOrder,    \* config.remote.provider_order
    AutoInstall,      \* config.remote.auto_install_helpers
    PinMaxAttempts,   \* DEFAULT_PIN_MAX_ATTEMPTS (5)
    MaxTunnels,       \* bound: tunnel processes
    MaxCrashes        \* bound: crashes of the daemon

Tunnels == 1 .. MaxTunnels

\* ActiveShare, without its URL and the text of its invite, and with its history.
Share == [tunnel: Tunnels, pin: BOOLEAN, used: BOOLEAN, failures: Nat, sessions: Nat, guesses: Nat]

ASSUME RemoteShareAssumption ==
    /\ ProviderOrder \in Seq({"cloudflared", "localhost_run"})
    /\ AutoInstall \in BOOLEAN
    /\ PinMaxAttempts \in Nat \ {0}
    /\ MaxTunnels \in Nat /\ MaxCrashes \in Nat
    /\ None \notin Tunnels \cup Share

VARIABLES share, child, tunnels, binary, req, crashes, tainted

code == <<share, child, tunnels, binary, req, crashes>>
vars == <<code, tainted>>

Idle == [kind |-> None, at |-> "idle", provider |-> 1, tunnel |-> None]
Init ==
    /\ share = None /\ child = None
    /\ tunnels = [t \in Tunnels |-> "new"] /\ binary = FALSE
    /\ req = [r \in Requests |-> Idle] /\ crashes = 0
    /\ tainted = {}

At(r, place) == req[r].at = place

Goto(r, place) == req' = [req EXCEPT ![r].at = place]

Done(r) == req' = [req EXCEPT ![r] = Idle]

\* The parts of the state a step leaves alone.
store == <<binary, crashes>>

Begin(r, kind) ==
    /\ At(r, "idle")
    /\ req' = [req EXCEPT ![r] = [Idle EXCEPT !.kind = kind,
                                   !.at = IF kind \in {"start", "stop"} THEN "kill" ELSE "look"]]
    /\ UNCHANGED <<share, child, tunnels, store>>

-----------------------------------------------------------------------------
(* stop_share, which start_share calls first.                              *)

\* The child is killed and awaited under the lock of tunnel_child ...
KillChild(r) ==
    /\ At(r, "kill")
    /\ tunnels' = [t \in Tunnels |-> IF t = child THEN "exited" ELSE tunnels[t]]
    /\ child' = None
    /\ Goto(r, "clear")
    /\ UNCHANGED <<share, store>>

\* ... and the share cleared under its own.
ClearShare(r) ==
    /\ At(r, "clear")
    /\ share' = None
    /\ IF req[r].kind = "start" THEN Goto(r, "provider") ELSE Done(r)
    /\ UNCHANGED <<child, tunnels, store>>

-----------------------------------------------------------------------------
(* start_tunnel_with_fallback.                                             *)

Provider(r) == ProviderOrder[req[r].provider]

Trying(r, provider) ==
    /\ At(r, "provider") /\ req[r].provider =< Len(ProviderOrder) /\ Provider(r) = provider

NextProvider(r) ==
    req' = [req EXCEPT ![r].at = "provider", ![r].provider = @ + 1, ![r].tunnel = None]

\* No provider is left: ProviderFailed.
NoProvider(r) ==
    /\ At(r, "provider") /\ req[r].provider > Len(ProviderOrder)
    /\ Done(r)
    /\ UNCHANGED <<share, child, tunnels, store>>

\* A provider cannot even be spawned: no ssh, no cloudflared and none may be
\* installed, one that is no program, or no process is left.
ProviderUnavailable(r) ==
    /\ At(r, "provider") /\ req[r].provider =< Len(ProviderOrder)
    /\ NextProvider(r)
    /\ UNCHANGED <<share, child, tunnels, store>>

Spawned(r) ==
    \E t \in Tunnels :
        /\ tunnels[t] = "new" /\ \A u \in 1 .. t - 1 : tunnels[u] # "new"
        /\ tunnels' = [tunnels EXCEPT ![t] = "running"]
        /\ req' = [req EXCEPT ![r].at = "wait", ![r].tunnel = t]

\* The ssh of PATH is spawned.
StartSsh(r) ==
    /\ Trying(r, "localhost_run") /\ Spawned(r)
    /\ UNCHANGED <<share, child, store>>

\* The cloudflared of PATH is spawned, or else the managed one, if a file of
\* that name exists: whatever is in it.
StartCloudflared(r) ==
    /\ Trying(r, "cloudflared") /\ Spawned(r)
    /\ UNCHANGED <<share, child, store>>

\* No cloudflared in PATH or in the directory of the daemon: one is fetched.
\* Nothing keeps two requests from doing so at once.
Fetch(r) ==
    /\ Trying(r, "cloudflared") /\ ~binary /\ AutoInstall
    /\ Goto(r, "download")
    /\ UNCHANGED <<share, child, tunnels, store>>

\* The release, its asset or its checksum is not found, or a page comes instead.
\* The HTTP client has no timeout: neither this nor Install need ever happen.
DownloadFails(r) ==
    /\ At(r, "download")
    /\ NextProvider(r)
    /\ UNCHANGED <<share, child, tunnels, store>>

\* It is here, whether or not its checksum matches, and written straight to the
\* file, or unpacked there by tar.
Install(r) ==
    /\ At(r, "download")
    /\ binary' = TRUE
    /\ Goto(r, "install")
    /\ UNCHANGED <<share, child, tunnels, crashes>>

\* The file is written and made executable, and the provider spawned from it.
Installed(r) ==
    /\ At(r, "install")
    /\ Spawned(r)
    /\ UNCHANGED <<share, child, store>>

\* The write fails: a part of the file stays, and exists() is content with it.
InstallFails(r) ==
    /\ At(r, "install")
    /\ NextProvider(r)
    /\ UNCHANGED <<share, child, tunnels, store>>

\* The provider has printed its public URL.
UrlArrives(r) ==
    /\ At(r, "wait")
    /\ Goto(r, "activate")
    /\ UNCHANGED <<share, child, tunnels, store>>

\* Mutant of WaitFails: the process is not killed.
WaitFailsOnly(r) ==
    /\ At(r, "wait")
    /\ NextProvider(r)
    /\ UNCHANGED <<share, child, tunnels, store>>

\* Mutant of WaitFails: only the end of the output ends the wait.
WaitFailsAtEof(r) ==
    /\ At(r, "wait") /\ tunnels[req[r].tunnel] = "exited"
    /\ NextProvider(r)
    /\ UNCHANGED <<share, child, tunnels, store>>

\* 25 s without one, or the end of its output: the process is killed.
WaitFails(r) ==
    /\ At(r, "wait")
    /\ tunnels' = [tunnels EXCEPT ![req[r].tunnel] = "exited"]
    /\ NextProvider(r)
    /\ UNCHANGED <<share, child, store>>

\* The new share, with or without a PIN ...
Activate(r) ==
    /\ At(r, "activate")
    /\ \E pin \in BOOLEAN :
          share' = [tunnel |-> req[r].tunnel, pin |-> pin, used |-> FALSE, failures |-> 0,
                    sessions |-> 0, guesses |-> 0]
    /\ Goto(r, "keep")
    /\ UNCHANGED <<child, tunnels, store>>

\* ... and its process; the Child that was there, if any, is dropped, not killed.
Keep(r) ==
    /\ At(r, "keep")
    /\ child' = req[r].tunnel
    /\ Done(r)
    /\ UNCHANGED <<share, tunnels, store>>

-----------------------------------------------------------------------------
(* status, invite_bootstrap and invite_exchange look after the tunnel first. *)

\* Mutant of Look: a child that has exited is dropped, and that is all.
LookOnly(r) ==
    /\ At(r, "look")
    /\ child' = IF child # None /\ tunnels[child] = "exited" THEN None ELSE child
    /\ Goto(r, "act")
    /\ UNCHANGED <<share, tunnels, store>>

\* sync_share_from_process: try_wait under the lock of tunnel_child ...
Look(r) ==
    /\ At(r, "look")
    /\ IF child # None /\ tunnels[child] = "exited"
       THEN child' = None /\ Goto(r, "forget")
       ELSE UNCHANGED child /\ Goto(r, "act")
    /\ UNCHANGED <<share, tunnels, store>>

\* ... and the share cleared under the other lock, whichever it is by now.
Forget(r) ==
    /\ At(r, "forget")
    /\ share' = None
    /\ Goto(r, "act")
    /\ UNCHANGED <<child, tunnels, store>>

\* status and invite_bootstrap (both of kind "status" here) only read.
Answer(r) ==
    /\ At(r, "act") /\ req[r].kind = "status"
    /\ Done(r)
    /\ UNCHANGED <<share, child, tunnels, store>>

\* validate_invite. An invite that is over its time is refused as well, which
\* ExchangeRefused allows at any time.
Valid == share # None /\ ~share.used

Exchanging(r) == At(r, "act") /\ req[r].kind = "exchange"

\* No or a bad invite, no PIN, or a trusted device token that is not ours.
ExchangeRefused(r) ==
    /\ Exchanging(r)
    /\ Done(r)
    /\ UNCHANGED <<share, child, tunnels, store>>
\* A wrong PIN (and no trusted device token that is still good): counted, and
\* the invite is used up at the limit.
WrongPin(r) ==
    /\ Exchanging(r) /\ Valid /\ share.pin
    /\ share' = [share EXCEPT !.failures = share.failures + 1, !.used = share.failures + 1 >= PinMaxAttempts,
                              !.guesses = share.guesses + 1]
    /\ Done(r)
    /\ UNCHANGED <<child, tunnels, store>>

\* Mutant of Accept: the invite is only used up by the answer.
AcceptUnmarked(r, failures) ==
    /\ Exchanging(r) /\ Valid
    /\ share' = [share EXCEPT !.failures = failures, !.sessions = share.sessions + 1]
    /\ Goto(r, "token")
    /\ UNCHANGED <<child, tunnels, store>>

\* The invite is used up under the lock, before there is a token.
Accept(r, failures) ==
    /\ Exchanging(r) /\ Valid
    /\ share' = [share EXCEPT !.failures = failures, !.used = TRUE, !.sessions = share.sessions + 1]
    /\ Goto(r, "token")
    /\ UNCHANGED <<child, tunnels, store>>

\* The share has no PIN, or the device has a token of this daemon that is still good.
AcceptUnasked(r) == Accept(r, share.failures)

\* The right PIN: the failures start again.
AcceptPin(r) == share # None /\ share.pin /\ Accept(r, 0)

\* add_session_token (TokenStore), with no lock of the share held.
AddToken(r) ==
    /\ At(r, "token")
    /\ Done(r)
    /\ UNCHANGED <<share, child, tunnels, store>>

-----------------------------------------------------------------------------
(* The environment.                                                        *)

\* A tunnel process ends by itself.
TunnelExits(t) ==
    /\ tunnels[t] = "running"
    /\ tunnels' = [tunnels EXCEPT ![t] = "exited"]
    /\ UNCHANGED <<share, child, store, req>>

\* The client goes away and the handler is dropped where it waits, and with it
\* a Child, which nobody kills: a tunnel, or the tar of an installation.
Cancel(r) ==
    /\ ~At(r, "idle")
    /\ Done(r)
    /\ UNCHANGED <<share, child, tunnels, store>>

\* The daemon dies and is started again; the tunnels go on.
Crash ==
    /\ crashes < MaxCrashes
    /\ crashes' = crashes + 1
    /\ share' = None /\ child' = None
    /\ req' = [r \in Requests |-> Idle]
    /\ UNCHANGED <<tunnels, binary>>

-----------------------------------------------------------------------------
Kinds == {"start", "stop", "status", "exchange"}

Starting(r) ==
    \/ NoProvider(r) \/ ProviderUnavailable(r) \/ StartSsh(r) \/ StartCloudflared(r)
    \/ Fetch(r) \/ Installed(r) \/ InstallFails(r) \/ WaitFails(r) \/ Activate(r) \/ Keep(r)

Handle(r) == KillChild(r) \/ ClearShare(r) \/ Starting(r)

\* What a handler waits for without a limit.
Downloading(r) == DownloadFails(r) \/ Install(r)

Inviting(r) ==
    \/ Look(r) \/ Forget(r) \/ Answer(r) \/ ExchangeRefused(r)
    \/ WrongPin(r) \/ AcceptUnasked(r) \/ AcceptPin(r) \/ AddToken(r)

Held(r) == IF req[r].at \in {"wait", "activate", "keep"} THEN {req[r].tunnel} ELSE {}

Changes(r) == req[r].kind \in {"start", "stop"} \/ At(r, "forget")

\* Tunnels that are being started while another request changes the share.
Contended == UNION {Held(r) : r \in {q \in Requests : \E p \in Requests \ {q} : Changes(p)}}

\* What a request that is dropped leaves behind: what it held, and the share it
\* was about to clear.
Abandoned(r) ==
    Held(r) \cup {t \in Tunnels : share # None /\ share.tunnel = t /\ req[r].at \in {"clear", "forget"}}

Tainting(lost) == tainted' = tainted \cup Contended' \cup lost

Next ==
    \/ \E r \in Requests :
          \/ (\/ Handle(r) \/ Downloading(r) \/ UrlArrives(r) \/ Inviting(r)
              \/ \E kind \in Kinds : Begin(r, kind)) /\ Tainting({})
          \/ Cancel(r) /\ Tainting(Abandoned(r))
    \/ (\E t \in Tunnels : TunnelExits(t)) /\ Tainting({})
    \/ Crash /\ Tainting({t \in Tunnels : tunnels[t] = "running"})

\* The runtime polls every handler, and the wait for a URL is timed; that a URL
\* ever arrives, or that a download ever ends, is nobody's promise.
Fairness == \A r \in Requests : WF_code(Handle(r)) /\ WF_code(Inviting(r))

Spec == Init /\ [][Next]_vars /\ Fairness

-----------------------------------------------------------------------------
(* Properties.                                                             *)

\* However many handlers race with one invite, it gives one session at most, no
\* more than PinMaxAttempts wrong PINs are ever tried on it, and once they are it
\* gives none.
InviteIsBounded ==
    share # None =>
        /\ share.sessions =< 1 /\ share.guesses =< PinMaxAttempts
        /\ share.guesses = PinMaxAttempts => share.sessions = 0

\* A tunnel that runs is on its way up, or it is the one of the active share
\* and the one stop_share will kill: failed providers, stops, fallbacks and
\* tunnels that die leave no public tunnel behind. Excused are tunnels that
\* were started while another request changed the share, whose request was
\* dropped, or that survived a crash of the daemon.
NoTunnelLeftBehind ==
    \A t \in Tunnels : tunnels[t] = "running" /\ t \notin tainted =>
        \/ \E r \in Requests : t \in Held(r)
        \/ t = child /\ share # None /\ share.tunnel = t

\* An active share has its tunnel process, so that the death of the tunnel is
\* noticed and ends the share (same excuses).
ShareHasItsTunnel ==
    share # None /\ share.tunnel \notin tainted
        /\ (\A r \in Requests : req[r].at \notin {"clear", "forget", "keep"})
    => child = share.tunnel

\* A request to start a share is answered, whatever the tunnel providers do,
\* unless a download of cloudflared stalls: that is the one wait of the handler
\* without a limit, and the request may stay in it for ever.
StartsAreAnswered ==
    \A r \in Requests :
        req[r].kind = "start" /\ ~At(r, "download") ~> At(r, "idle") \/ At(r, "download")
=============================================================================
