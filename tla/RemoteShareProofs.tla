-------------------------- MODULE RemoteShareProofs --------------------------
(***************************************************************************)
(* The safety properties of RemoteShare for any number of handlers,        *)
(* tunnels, providers and PIN attempts.                                    *)
(*                                                                         *)
(* A tunnel is tainted as soon as another request changes the share while  *)
(* it comes up (Contested). So the request that keeps an untainted tunnel  *)
(* has been the only one to change anything since it stopped the share     *)
(* before: no child is left that it could overwrite (Stopped), and the     *)
(* share is the one it activated (Activated).                              *)
(***************************************************************************)
EXTENDS RemoteShare, TLAPS

Places == {"idle", "kill", "clear", "provider", "download", "install", "wait", "activate", "keep",
           "look", "forget", "act", "token"}

TypeInv ==
  /\ share \in Share \cup {None}
  /\ child \in Tunnels \cup {None}
  /\ tunnels \in [Tunnels -> {"new", "running", "exited"}]
  /\ req \in [Requests -> [kind: Kinds \cup {None}, at: Places, provider: Nat, tunnel: Tunnels \cup {None}]]
  /\ \A r \in Requests : req[r].at \in {"wait", "activate", "keep"} => req[r].tunnel \in Tunnels

\* An invite that is not used up has given nothing, and counts every wrong PIN.
Invite ==
  share # None =>
    /\ share.sessions \in {0, 1}
    /\ ~share.used => share.sessions = 0 /\ share.guesses = share.failures /\ share.failures < PinMaxAttempts
    /\ share.used => share.guesses =< PinMaxAttempts /\ (share.guesses = PinMaxAttempts => share.sessions = 0)

\* The requests that start or stop a share, from their first step on.
Begun == \A r \in Requests :
  req[r].at \in {"kill", "clear", "provider", "download", "install", "wait", "activate", "keep"}
    => req[r].kind \in {"start", "stop"}

Contested == \A r, p \in Requests :
  r # p /\ req[r].at \in {"wait", "activate", "keep"} /\ Changes(p) => req[r].tunnel \in tainted

\* Once a request has killed the child or found it dead, there is none until its
\* own, but for those of requests that it contends with.
Stopped == \A r \in Requests :
  req[r].at \in {"clear", "provider", "download", "install", "wait", "activate", "keep", "forget"}
    => child = None \/ child \in tainted

Activated == \A r \in Requests :
  At(r, "keep") /\ req[r].tunnel \notin tainted => share # None /\ share.tunnel = req[r].tunnel

\* Whose tunnel an active share has, at any time.
Shared ==
  share # None /\ share.tunnel \notin tainted =>
    \/ child = share.tunnel
    \/ \E r \in Requests : req[r].at \in {"clear", "forget"} \/ (At(r, "keep") /\ req[r].tunnel = share.tunnel)

IInv == TypeInv /\ Invite /\ Begun /\ Contested /\ Stopped /\ Activated /\ Shared /\ NoTunnelLeftBehind

USE RemoteShareAssumption DEF Places, Share, Kinds, At, Goto, Done, Idle, NextProvider, store, Held, Changes

-----------------------------------------------------------------------------
\* What every step does to the tainted tunnels.
LEMMA Taints ==
  ASSUME NEW lost, Tainting(lost)
  PROVE  tainted \subseteq tainted' /\ lost \subseteq tainted' /\ Contested'
<1>1. tainted' = tainted \cup Contended' \cup lost
  BY DEF Tainting
<1>2. ASSUME NEW r \in Requests, NEW p \in Requests, r # p,
             req'[r].at \in {"wait", "activate", "keep"}, Changes(p)'
      PROVE  req'[r].tunnel \in Contended'
  BY <1>2 DEF Contended
<1> QED
  BY <1>1, <1>2 DEF Contested

\* A request that moves on stays a request.
LEMMA MovedIs ==
  ASSUME TypeInv, NEW r \in Requests, NEW place \in Places, NEW t \in Tunnels \cup {None},
         req' = [req EXCEPT ![r] = [@ EXCEPT !.at = place, !.tunnel = t]],
         place \in {"wait", "activate", "keep"} => t \in Tunnels
  PROVE  /\ req' \in [Requests -> [kind: Kinds \cup {None}, at: Places, provider: Nat, tunnel: Tunnels \cup {None}]]
         /\ \A p \in Requests : req'[p].at \in {"wait", "activate", "keep"} => req'[p].tunnel \in Tunnels
<1> HIDE DEF Kinds, Places
<1> DEFINE Moved == [req[r] EXCEPT !.at = place, !.tunnel = t]
<1>1. req[r] \in [kind: Kinds \cup {None}, at: Places, provider: Nat, tunnel: Tunnels \cup {None}]
  BY DEF TypeInv
<1>2. Moved.at = place /\ Moved.tunnel = t
  BY <1>1
<1>3. Moved \in [kind: Kinds \cup {None}, at: Places, provider: Nat, tunnel: Tunnels \cup {None}]
  BY <1>1
<1>4. req' = [req EXCEPT ![r] = Moved]
  OBVIOUS
<1> HIDE DEF Moved
<1>5. req' \in [Requests -> [kind: Kinds \cup {None}, at: Places, provider: Nat, tunnel: Tunnels \cup {None}]]
  BY <1>3, <1>4 DEF TypeInv
<1>6. ASSUME NEW p \in Requests, req'[p].at \in {"wait", "activate", "keep"} PROVE req'[p].tunnel \in Tunnels
  <2>1. CASE p = r
    BY <1>2, <1>4, <1>6, <2>1 DEF TypeInv
  <2>2. CASE p # r
    BY <1>4, <1>6, <2>2 DEF TypeInv
  <2> QED
    BY <2>1, <2>2
<1> QED
  BY <1>5, <1>6

\* So does one that keeps its tunnel.
LEMMA SteppedIs ==
  ASSUME TypeInv, NEW r \in Requests, NEW place \in Places,
         req' = [req EXCEPT ![r] = [@ EXCEPT !.at = place]],
         place \in {"wait", "activate", "keep"} => req[r].tunnel \in Tunnels
  PROVE  /\ req' \in [Requests -> [kind: Kinds \cup {None}, at: Places, provider: Nat, tunnel: Tunnels \cup {None}]]
         /\ \A p \in Requests : req'[p].at \in {"wait", "activate", "keep"} => req'[p].tunnel \in Tunnels
<1> HIDE DEF Kinds, Places
<1>1. req[r] \in [kind: Kinds \cup {None}, at: Places, provider: Nat, tunnel: Tunnels \cup {None}]
  BY DEF TypeInv
<1>2. [req[r] EXCEPT !.at = place] = [req[r] EXCEPT !.at = place, !.tunnel = req[r].tunnel]
  BY <1>1
<1>3. req[r].tunnel \in Tunnels \cup {None} /\ req' = [req EXCEPT ![r] = [@ EXCEPT !.at = place, !.tunnel = req[r].tunnel]]
  BY <1>1, <1>2
<1> QED
  BY <1>3, MovedIs

\* A request that begins contests the tunnels on their way up.
LEMMA BeginKeeps ==
  ASSUME IInv, NEW r \in Requests, NEW kind \in Kinds, Begin(r, kind), Tainting({})
  PROVE  IInv'
<1> USE DEF Begin
<1>1. tainted \subseteq tainted' /\ Contested'
  BY Taints
<1>2. TypeInv'
  BY DEF IInv, TypeInv
<1>3. Invite' /\ Begun'
  BY DEF IInv, TypeInv, Invite, Begun
<1>4. Stopped' /\ Activated'
  BY <1>1 DEF IInv, TypeInv, Begun, Contested, Stopped, Activated
<1>5. Shared'
  BY <1>1 DEF IInv, TypeInv, Begun, Contested, Stopped, Activated, Shared
<1>6. NoTunnelLeftBehind'
  BY <1>1 DEF IInv, TypeInv, Begun, Contested, Stopped, Activated, Shared, NoTunnelLeftBehind
<1> QED
  BY <1>1, <1>2, <1>3, <1>4, <1>5, <1>6 DEF IInv

\* The child is gone, and the request is about to clear its share.
LEMMA KillChildKeeps ==
  ASSUME IInv, NEW r \in Requests, KillChild(r), Tainting({})
  PROVE  IInv'
<1> USE DEF KillChild
<1>1. tainted \subseteq tainted' /\ Contested'
  BY Taints
<1>2. TypeInv'
  BY DEF IInv, TypeInv
<1>3. Invite' /\ Begun'
  BY DEF IInv, TypeInv, Invite, Begun
<1>4. Stopped' /\ Activated'
  BY <1>1 DEF IInv, TypeInv, Begun, Contested, Stopped, Activated
<1>5. Shared'
  BY <1>1 DEF IInv, TypeInv, Begun, Contested, Stopped, Activated, Shared
<1>6. NoTunnelLeftBehind'
  BY <1>1 DEF IInv, TypeInv, Begun, Contested, Stopped, Activated, Shared, NoTunnelLeftBehind
<1> QED
  BY <1>1, <1>2, <1>3, <1>4, <1>5, <1>6 DEF IInv

\* There is no child left, but a tainted one.
LEMMA ClearShareKeeps ==
  ASSUME IInv, NEW r \in Requests, ClearShare(r), Tainting({})
  PROVE  IInv'
<1>1. tainted \subseteq tainted' /\ Contested'
  BY Taints
<1>2. req[r].at = "clear" /\ share' = None /\ child' = child /\ tunnels' = tunnels
  BY DEF ClearShare
<1>3. \/ req[r].kind = "start" /\ req' = [req EXCEPT ![r].at = "provider"]
      \/ req' = [req EXCEPT ![r] = Idle]
  BY DEF ClearShare
<1>5. TypeInv'
  <2>1. CASE req[r].kind = "start" /\ req' = [req EXCEPT ![r].at = "provider"]
    BY <1>2, <2>1 DEF IInv, TypeInv
  <2>2. CASE req' = [req EXCEPT ![r] = Idle]
    BY <1>2, <2>2 DEF IInv, TypeInv
  <2> QED
    BY <1>3, <2>1, <2>2
<1>6. Invite' /\ Begun'
  BY <1>2, <1>3 DEF IInv, TypeInv, Invite, Begun
<1>7. Stopped' /\ Activated'
  <2>1. child' = None \/ child' \in tainted'
    BY <1>1, <1>2 DEF IInv, Stopped
  <2>2. \A p \in Requests : req'[p].at = "keep" => p # r /\ req'[p] = req[p]
    BY <1>2, <1>3 DEF IInv, TypeInv
  <2>3. \A p \in Requests : req'[p].at = "keep" => req'[p].tunnel \in tainted'
    BY <1>1, <1>2, <2>2 DEF IInv, Begun, Contested
  <2> QED
    BY <2>1, <2>3 DEF Stopped, Activated
<1>8. Shared'
  BY <1>2 DEF Shared
<1>9. NoTunnelLeftBehind'
  BY <1>1, <1>2, <1>3 DEF IInv, TypeInv, Begun, Contested, Stopped, Activated, Shared, NoTunnelLeftBehind
<1> QED
  BY <1>1, <1>5, <1>6, <1>7, <1>8, <1>9 DEF IInv

LEMMA NoProviderKeeps ==
  ASSUME IInv, NEW r \in Requests, NoProvider(r), Tainting({})
  PROVE  IInv'
<1> USE DEF NoProvider
<1>1. tainted \subseteq tainted' /\ Contested'
  BY Taints
<1>2. TypeInv'
  BY DEF IInv, TypeInv
<1>3. Invite' /\ Begun'
  BY DEF IInv, TypeInv, Invite, Begun
<1>4. Stopped' /\ Activated'
  BY <1>1 DEF IInv, TypeInv, Begun, Contested, Stopped, Activated
<1>5. Shared'
  BY <1>1 DEF IInv, TypeInv, Begun, Contested, Stopped, Activated, Shared
<1>6. NoTunnelLeftBehind'
  BY <1>1 DEF IInv, TypeInv, Begun, Contested, Stopped, Activated, Shared, NoTunnelLeftBehind
<1> QED
  BY <1>1, <1>2, <1>3, <1>4, <1>5, <1>6 DEF IInv

LEMMA ProviderUnavailableKeeps ==
  ASSUME IInv, NEW r \in Requests, ProviderUnavailable(r), Tainting({})
  PROVE  IInv'
<1> USE DEF ProviderUnavailable
<1>1. tainted \subseteq tainted' /\ Contested'
  BY Taints
<1>2. TypeInv'
  BY DEF IInv, TypeInv
<1>3. Invite' /\ Begun'
  BY DEF IInv, TypeInv, Invite, Begun
<1>4. Stopped' /\ Activated'
  BY <1>1 DEF IInv, TypeInv, Begun, Contested, Stopped, Activated
<1>5. Shared'
  BY <1>1 DEF IInv, TypeInv, Begun, Contested, Stopped, Activated, Shared
<1>6. NoTunnelLeftBehind'
  BY <1>1 DEF IInv, TypeInv, Begun, Contested, Stopped, Activated, Shared, NoTunnelLeftBehind
<1> QED
  BY <1>1, <1>2, <1>3, <1>4, <1>5, <1>6 DEF IInv

\* A tunnel process is spawned for the request, and held by it.
LEMMA SpawnedIs ==
  ASSUME NEW r \in Requests, Spawned(r)
  PROVE  \E t \in Tunnels :
           /\ tunnels' = [tunnels EXCEPT ![t] = "running"]
           /\ req' = [req EXCEPT ![r].at = "wait", ![r].tunnel = t]
  BY DEF Spawned

LEMMA StartSshKeeps ==
  ASSUME IInv, NEW r \in Requests, StartSsh(r), Tainting({})
  PROVE  IInv'
<1>1. tainted \subseteq tainted' /\ Contested'
  BY Taints
<1>2. req[r].at = "provider" /\ share' = share /\ child' = child
  BY DEF StartSsh, Trying
<1>3. PICK t \in Tunnels :
        /\ tunnels' = [tunnels EXCEPT ![t] = "running"]
        /\ req' = [req EXCEPT ![r].at = "wait", ![r].tunnel = t]
  BY SpawnedIs DEF StartSsh, Trying
<1>4. req' = [req EXCEPT ![r] = [@ EXCEPT !.at = "wait", !.tunnel = t]]
  BY <1>3 DEF IInv, TypeInv
<1>5. TypeInv'
  <2>1. tunnels' \in [Tunnels -> {"new", "running", "exited"}]
    BY <1>3 DEF IInv, TypeInv
  <2>2. /\ req' \in [Requests -> [kind: Kinds \cup {None}, at: Places, provider: Nat, tunnel: Tunnels \cup {None}]]
        /\ \A p \in Requests : req'[p].at \in {"wait", "activate", "keep"} => req'[p].tunnel \in Tunnels
    BY <1>4, MovedIs DEF IInv
  <2> QED
    BY <1>2, <2>1, <2>2 DEF IInv, TypeInv
<1>6. Invite' /\ Begun'
  BY <1>2, <1>3, <1>4 DEF IInv, TypeInv, Invite, Begun
<1>7. Stopped' /\ Activated'
  BY <1>1, <1>2, <1>3, <1>4 DEF IInv, TypeInv, Begun, Contested, Stopped, Activated
<1>8. Shared'
  BY <1>1, <1>2, <1>3, <1>4 DEF IInv, TypeInv, Begun, Contested, Stopped, Activated, Shared
<1>9. NoTunnelLeftBehind'
  BY <1>1, <1>2, <1>3, <1>4 DEF IInv, TypeInv, Begun, Contested, Stopped, Activated, Shared, NoTunnelLeftBehind
<1> QED
  BY <1>1, <1>5, <1>6, <1>7, <1>8, <1>9 DEF IInv

LEMMA StartCloudflaredKeeps ==
  ASSUME IInv, NEW r \in Requests, StartCloudflared(r), Tainting({})
  PROVE  IInv'
<1>1. tainted \subseteq tainted' /\ Contested'
  BY Taints
<1>2. req[r].at = "provider" /\ share' = share /\ child' = child
  BY DEF StartCloudflared, Trying
<1>3. PICK t \in Tunnels :
        /\ tunnels' = [tunnels EXCEPT ![t] = "running"]
        /\ req' = [req EXCEPT ![r].at = "wait", ![r].tunnel = t]
  BY SpawnedIs DEF StartCloudflared, Trying
<1>4. req' = [req EXCEPT ![r] = [@ EXCEPT !.at = "wait", !.tunnel = t]]
  BY <1>3 DEF IInv, TypeInv
<1>5. TypeInv'
  <2>1. tunnels' \in [Tunnels -> {"new", "running", "exited"}]
    BY <1>3 DEF IInv, TypeInv
  <2>2. /\ req' \in [Requests -> [kind: Kinds \cup {None}, at: Places, provider: Nat, tunnel: Tunnels \cup {None}]]
        /\ \A p \in Requests : req'[p].at \in {"wait", "activate", "keep"} => req'[p].tunnel \in Tunnels
    BY <1>4, MovedIs DEF IInv
  <2> QED
    BY <1>2, <2>1, <2>2 DEF IInv, TypeInv
<1>6. Invite' /\ Begun'
  BY <1>2, <1>3, <1>4 DEF IInv, TypeInv, Invite, Begun
<1>7. Stopped' /\ Activated'
  BY <1>1, <1>2, <1>3, <1>4 DEF IInv, TypeInv, Begun, Contested, Stopped, Activated
<1>8. Shared'
  BY <1>1, <1>2, <1>3, <1>4 DEF IInv, TypeInv, Begun, Contested, Stopped, Activated, Shared
<1>9. NoTunnelLeftBehind'
  BY <1>1, <1>2, <1>3, <1>4 DEF IInv, TypeInv, Begun, Contested, Stopped, Activated, Shared, NoTunnelLeftBehind
<1> QED
  BY <1>1, <1>5, <1>6, <1>7, <1>8, <1>9 DEF IInv

LEMMA FetchKeeps ==
  ASSUME IInv, NEW r \in Requests, Fetch(r), Tainting({})
  PROVE  IInv'
<1> USE DEF Fetch, Trying
<1>1. tainted \subseteq tainted' /\ Contested'
  BY Taints
<1>2. TypeInv'
  BY DEF IInv, TypeInv
<1>3. Invite' /\ Begun'
  BY DEF IInv, TypeInv, Invite, Begun
<1>4. Stopped' /\ Activated'
  BY <1>1 DEF IInv, TypeInv, Begun, Contested, Stopped, Activated
<1>5. Shared'
  BY <1>1 DEF IInv, TypeInv, Begun, Contested, Stopped, Activated, Shared
<1>6. NoTunnelLeftBehind'
  BY <1>1 DEF IInv, TypeInv, Begun, Contested, Stopped, Activated, Shared, NoTunnelLeftBehind
<1> QED
  BY <1>1, <1>2, <1>3, <1>4, <1>5, <1>6 DEF IInv

LEMMA DownloadFailsKeeps ==
  ASSUME IInv, NEW r \in Requests, DownloadFails(r), Tainting({})
  PROVE  IInv'
<1> USE DEF DownloadFails
<1>1. tainted \subseteq tainted' /\ Contested'
  BY Taints
<1>2. TypeInv'
  BY DEF IInv, TypeInv
<1>3. Invite' /\ Begun'
  BY DEF IInv, TypeInv, Invite, Begun
<1>4. Stopped' /\ Activated'
  BY <1>1 DEF IInv, TypeInv, Begun, Contested, Stopped, Activated
<1>5. Shared'
  BY <1>1 DEF IInv, TypeInv, Begun, Contested, Stopped, Activated, Shared
<1>6. NoTunnelLeftBehind'
  BY <1>1 DEF IInv, TypeInv, Begun, Contested, Stopped, Activated, Shared, NoTunnelLeftBehind
<1> QED
  BY <1>1, <1>2, <1>3, <1>4, <1>5, <1>6 DEF IInv

LEMMA InstallKeeps ==
  ASSUME IInv, NEW r \in Requests, Install(r), Tainting({})
  PROVE  IInv'
<1> USE DEF Install
<1>1. tainted \subseteq tainted' /\ Contested'
  BY Taints
<1>2. TypeInv'
  BY DEF IInv, TypeInv
<1>3. Invite' /\ Begun'
  BY DEF IInv, TypeInv, Invite, Begun
<1>4. Stopped' /\ Activated'
  BY <1>1 DEF IInv, TypeInv, Begun, Contested, Stopped, Activated
<1>5. Shared'
  BY <1>1 DEF IInv, TypeInv, Begun, Contested, Stopped, Activated, Shared
<1>6. NoTunnelLeftBehind'
  BY <1>1 DEF IInv, TypeInv, Begun, Contested, Stopped, Activated, Shared, NoTunnelLeftBehind
<1> QED
  BY <1>1, <1>2, <1>3, <1>4, <1>5, <1>6 DEF IInv

LEMMA InstalledKeeps ==
  ASSUME IInv, NEW r \in Requests, Installed(r), Tainting({})
  PROVE  IInv'
<1>1. tainted \subseteq tainted' /\ Contested'
  BY Taints
<1>2. req[r].at = "install" /\ share' = share /\ child' = child
  BY DEF Installed
<1>3. PICK t \in Tunnels :
        /\ tunnels' = [tunnels EXCEPT ![t] = "running"]
        /\ req' = [req EXCEPT ![r].at = "wait", ![r].tunnel = t]
  BY SpawnedIs DEF Installed
<1>4. req' = [req EXCEPT ![r] = [@ EXCEPT !.at = "wait", !.tunnel = t]]
  BY <1>3 DEF IInv, TypeInv
<1>5. TypeInv'
  <2>1. tunnels' \in [Tunnels -> {"new", "running", "exited"}]
    BY <1>3 DEF IInv, TypeInv
  <2>2. /\ req' \in [Requests -> [kind: Kinds \cup {None}, at: Places, provider: Nat, tunnel: Tunnels \cup {None}]]
        /\ \A p \in Requests : req'[p].at \in {"wait", "activate", "keep"} => req'[p].tunnel \in Tunnels
    BY <1>4, MovedIs DEF IInv
  <2> QED
    BY <1>2, <2>1, <2>2 DEF IInv, TypeInv
<1>6. Invite' /\ Begun'
  BY <1>2, <1>3, <1>4 DEF IInv, TypeInv, Invite, Begun
<1>7. Stopped' /\ Activated'
  BY <1>1, <1>2, <1>3, <1>4 DEF IInv, TypeInv, Begun, Contested, Stopped, Activated
<1>8. Shared'
  BY <1>1, <1>2, <1>3, <1>4 DEF IInv, TypeInv, Begun, Contested, Stopped, Activated, Shared
<1>9. NoTunnelLeftBehind'
  BY <1>1, <1>2, <1>3, <1>4 DEF IInv, TypeInv, Begun, Contested, Stopped, Activated, Shared, NoTunnelLeftBehind
<1> QED
  BY <1>1, <1>5, <1>6, <1>7, <1>8, <1>9 DEF IInv

LEMMA InstallFailsKeeps ==
  ASSUME IInv, NEW r \in Requests, InstallFails(r), Tainting({})
  PROVE  IInv'
<1> USE DEF InstallFails
<1>1. tainted \subseteq tainted' /\ Contested'
  BY Taints
<1>2. TypeInv'
  BY DEF IInv, TypeInv
<1>3. Invite' /\ Begun'
  BY DEF IInv, TypeInv, Invite, Begun
<1>4. Stopped' /\ Activated'
  BY <1>1 DEF IInv, TypeInv, Begun, Contested, Stopped, Activated
<1>5. Shared'
  BY <1>1 DEF IInv, TypeInv, Begun, Contested, Stopped, Activated, Shared
<1>6. NoTunnelLeftBehind'
  BY <1>1 DEF IInv, TypeInv, Begun, Contested, Stopped, Activated, Shared, NoTunnelLeftBehind
<1> QED
  BY <1>1, <1>2, <1>3, <1>4, <1>5, <1>6 DEF IInv

LEMMA UrlArrivesKeeps ==
  ASSUME IInv, NEW r \in Requests, UrlArrives(r), Tainting({})
  PROVE  IInv'
<1> USE DEF UrlArrives
<1>1. tainted \subseteq tainted' /\ Contested'
  BY Taints
<1>2. TypeInv'
  BY DEF IInv, TypeInv
<1>3. Invite' /\ Begun'
  BY DEF IInv, TypeInv, Invite, Begun
<1>4. Stopped' /\ Activated'
  BY <1>1 DEF IInv, TypeInv, Begun, Contested, Stopped, Activated
<1>5. Shared'
  BY <1>1 DEF IInv, TypeInv, Begun, Contested, Stopped, Activated, Shared
<1>6. NoTunnelLeftBehind'
  BY <1>1 DEF IInv, TypeInv, Begun, Contested, Stopped, Activated, Shared, NoTunnelLeftBehind
<1> QED
  BY <1>1, <1>2, <1>3, <1>4, <1>5, <1>6 DEF IInv

\* The tunnel that is given up does not run any more.
LEMMA WaitFailsKeeps ==
  ASSUME IInv, NEW r \in Requests, WaitFails(r), Tainting({})
  PROVE  IInv'
<1> USE DEF WaitFails
<1>1. tainted \subseteq tainted' /\ Contested'
  BY Taints
<1>2. TypeInv'
  BY DEF IInv, TypeInv
<1>3. Invite' /\ Begun'
  BY DEF IInv, TypeInv, Invite, Begun
<1>4. Stopped' /\ Activated'
  BY <1>1 DEF IInv, TypeInv, Begun, Contested, Stopped, Activated
<1>5. Shared'
  BY <1>1 DEF IInv, TypeInv, Begun, Contested, Stopped, Activated, Shared
<1>6. NoTunnelLeftBehind'
  BY <1>1 DEF IInv, TypeInv, Begun, Contested, Stopped, Activated, Shared, NoTunnelLeftBehind
<1> QED
  BY <1>1, <1>2, <1>3, <1>4, <1>5, <1>6 DEF IInv

\* The share is new, with no PIN tried; there is no child that it could lose, but a tainted one.
LEMMA ActivateKeeps ==
  ASSUME IInv, NEW r \in Requests, Activate(r), Tainting({})
  PROVE  IInv'
<1>1. tainted \subseteq tainted' /\ Contested'
  BY Taints
<1>2. req[r].at = "activate" /\ child' = child /\ tunnels' = tunnels /\ req' = [req EXCEPT ![r].at = "keep"]
  BY DEF Activate
<1>3. req[r].tunnel \in Tunnels
  BY <1>2 DEF IInv, TypeInv
<1>4. /\ share' \in Share /\ share' # None /\ share'.tunnel = req[r].tunnel
      /\ ~share'.used /\ share'.sessions = 0 /\ share'.guesses = 0 /\ share'.failures = 0
  <2>1. PICK pin \in BOOLEAN :
          share' = [tunnel |-> req[r].tunnel, pin |-> pin, used |-> FALSE, failures |-> 0,
                    sessions |-> 0, guesses |-> 0]
    BY DEF Activate
  <2>2. share' \in Share
    BY <1>3, <2>1
  <2>3. None \notin Share
    OBVIOUS
  <2> QED
    BY <2>1, <2>2, <2>3
<1>5. TypeInv'
  <2>1. /\ req' \in [Requests -> [kind: Kinds \cup {None}, at: Places, provider: Nat, tunnel: Tunnels \cup {None}]]
        /\ \A p \in Requests : req'[p].at \in {"wait", "activate", "keep"} => req'[p].tunnel \in Tunnels
    BY <1>2, <1>3, SteppedIs DEF IInv
  <2> HIDE DEF Share
  <2> QED
    BY <1>2, <1>4, <2>1 DEF IInv, TypeInv
<1>6. Invite' /\ Begun'
  BY <1>2, <1>3, <1>4 DEF IInv, TypeInv, Invite, Begun
<1>7. Stopped' /\ Activated'
  BY <1>1, <1>2, <1>3, <1>4 DEF IInv, TypeInv, Begun, Contested, Stopped, Activated
<1>8. Shared'
  BY <1>1, <1>2, <1>3, <1>4 DEF IInv, TypeInv, Begun, Contested, Stopped, Activated, Shared
<1>9. NoTunnelLeftBehind'
  BY <1>1, <1>2, <1>3, <1>4 DEF IInv, TypeInv, Begun, Contested, Stopped, Activated, Shared, NoTunnelLeftBehind
<1> QED
  BY <1>1, <1>5, <1>6, <1>7, <1>8, <1>9 DEF IInv

\* The tunnel of the request is that of the share (Activated), and there is no other child to lose (Stopped).
LEMMA KeepKeeps ==
  ASSUME IInv, NEW r \in Requests, Keep(r), Tainting({})
  PROVE  IInv'
<1> USE DEF Keep
<1>1. tainted \subseteq tainted' /\ Contested'
  BY Taints
<1>2. TypeInv'
  BY DEF IInv, TypeInv
<1>3. Invite' /\ Begun'
  BY DEF IInv, TypeInv, Invite, Begun
<1>4. Stopped' /\ Activated'
  BY <1>1 DEF IInv, TypeInv, Begun, Contested, Stopped, Activated
<1>5. Shared'
  BY <1>1 DEF IInv, TypeInv, Begun, Contested, Stopped, Activated, Shared
<1>6. NoTunnelLeftBehind'
  BY <1>1 DEF IInv, TypeInv, Begun, Contested, Stopped, Activated, Shared, NoTunnelLeftBehind
<1> QED
  BY <1>1, <1>2, <1>3, <1>4, <1>5, <1>6 DEF IInv

\* A child that has exited is dropped, and its share about to be cleared.
LEMMA LookKeeps ==
  ASSUME IInv, NEW r \in Requests, Look(r), Tainting({})
  PROVE  IInv'
<1>1. tainted \subseteq tainted' /\ Contested'
  BY Taints
<1>2. req[r].at = "look" /\ share' = share /\ tunnels' = tunnels
  BY DEF Look
<1>3. \/ child # None /\ tunnels[child] = "exited" /\ child' = None /\ req' = [req EXCEPT ![r].at = "forget"]
      \/ child' = child /\ req' = [req EXCEPT ![r].at = "act"]
  BY DEF Look
<1>5. TypeInv'
  <2>1. /\ req' \in [Requests -> [kind: Kinds \cup {None}, at: Places, provider: Nat, tunnel: Tunnels \cup {None}]]
        /\ \A p \in Requests : req'[p].at \in {"wait", "activate", "keep"} => req'[p].tunnel \in Tunnels
    <3>1. CASE req' = [req EXCEPT ![r].at = "forget"]
      BY <3>1, SteppedIs DEF IInv
    <3>2. CASE req' = [req EXCEPT ![r].at = "act"]
      BY <3>2, SteppedIs DEF IInv
    <3> QED
      BY <1>3, <3>1, <3>2
  <2> HIDE DEF Share
  <2> QED
    BY <1>2, <1>3, <2>1 DEF IInv, TypeInv
<1>6. Invite' /\ Begun'
  BY <1>2, <1>3 DEF IInv, TypeInv, Invite, Begun
<1>7. Stopped' /\ Activated'
  BY <1>1, <1>2, <1>3 DEF IInv, TypeInv, Begun, Contested, Stopped, Activated
<1>8. Shared'
  BY <1>1, <1>2, <1>3 DEF IInv, TypeInv, Begun, Contested, Stopped, Activated, Shared
<1>9. NoTunnelLeftBehind'
  <2>1. \A p \in Requests : Held(p) \subseteq Held(p)'
    BY <1>2, <1>3 DEF IInv, TypeInv
  <2>2. child' = child \/ (child # None /\ tunnels[child] = "exited")
    BY <1>3
  <2> HIDE DEF Held
  <2> QED
    BY <1>1, <1>2, <2>1, <2>2 DEF IInv, NoTunnelLeftBehind
<1> QED
  BY <1>1, <1>5, <1>6, <1>7, <1>8, <1>9 DEF IInv

\* The share that is cleared has no child, but a tainted one (Stopped).
LEMMA ForgetKeeps ==
  ASSUME IInv, NEW r \in Requests, Forget(r), Tainting({})
  PROVE  IInv'
<1> USE DEF Forget
<1>1. tainted \subseteq tainted' /\ Contested'
  BY Taints
<1>2. TypeInv'
  BY DEF IInv, TypeInv
<1>3. Invite' /\ Begun'
  BY DEF IInv, TypeInv, Invite, Begun
<1>4. Stopped' /\ Activated'
  BY <1>1 DEF IInv, TypeInv, Begun, Contested, Stopped, Activated
<1>5. Shared'
  BY <1>1 DEF IInv, TypeInv, Begun, Contested, Stopped, Activated, Shared
<1>6. NoTunnelLeftBehind'
  BY <1>1 DEF IInv, TypeInv, Begun, Contested, Stopped, Activated, Shared, NoTunnelLeftBehind
<1> QED
  BY <1>1, <1>2, <1>3, <1>4, <1>5, <1>6 DEF IInv

LEMMA AnswerKeeps ==
  ASSUME IInv, NEW r \in Requests, Answer(r), Tainting({})
  PROVE  IInv'
<1> USE DEF Answer
<1>1. tainted \subseteq tainted' /\ Contested'
  BY Taints
<1>2. TypeInv'
  BY DEF IInv, TypeInv
<1>3. Invite' /\ Begun'
  BY DEF IInv, TypeInv, Invite, Begun
<1>4. Stopped' /\ Activated'
  BY <1>1 DEF IInv, TypeInv, Begun, Contested, Stopped, Activated
<1>5. Shared'
  BY <1>1 DEF IInv, TypeInv, Begun, Contested, Stopped, Activated, Shared
<1>6. NoTunnelLeftBehind'
  BY <1>1 DEF IInv, TypeInv, Begun, Contested, Stopped, Activated, Shared, NoTunnelLeftBehind
<1> QED
  BY <1>1, <1>2, <1>3, <1>4, <1>5, <1>6 DEF IInv

LEMMA ExchangeRefusedKeeps ==
  ASSUME IInv, NEW r \in Requests, ExchangeRefused(r), Tainting({})
  PROVE  IInv'
<1> USE DEF ExchangeRefused, Exchanging
<1>1. tainted \subseteq tainted' /\ Contested'
  BY Taints
<1>2. TypeInv'
  BY DEF IInv, TypeInv
<1>3. Invite' /\ Begun'
  BY DEF IInv, TypeInv, Invite, Begun
<1>4. Stopped' /\ Activated'
  BY <1>1 DEF IInv, TypeInv, Begun, Contested, Stopped, Activated
<1>5. Shared'
  BY <1>1 DEF IInv, TypeInv, Begun, Contested, Stopped, Activated, Shared
<1>6. NoTunnelLeftBehind'
  BY <1>1 DEF IInv, TypeInv, Begun, Contested, Stopped, Activated, Shared, NoTunnelLeftBehind
<1> QED
  BY <1>1, <1>2, <1>3, <1>4, <1>5, <1>6 DEF IInv

\* One more wrong PIN, and the invite is used up at the limit.
LEMMA WrongPinKeeps ==
  ASSUME IInv, NEW r \in Requests, WrongPin(r), Tainting({})
  PROVE  IInv'
<1>1. tainted \subseteq tainted' /\ Contested'
  BY Taints
<1>2. share \in Share /\ req[r].at = "act"
  BY DEF WrongPin, Exchanging, Valid, IInv, TypeInv
<1>3. share' \in Share /\ share' # None /\ share'.tunnel = share.tunnel
  <2> DEFINE n == share.failures + 1
            k == share.guesses + 1
            b == share.failures + 1 >= PinMaxAttempts
  <2>1. n \in Nat /\ k \in Nat /\ b \in BOOLEAN
    BY <1>2
  <2>2. share' = [share EXCEPT !.failures = n, !.used = b, !.guesses = k]
    BY DEF WrongPin, Exchanging, Valid
  <2> HIDE DEF n, k, b
  <2>3. share' \in Share /\ share'.tunnel = share.tunnel
    BY <1>2, <2>1, <2>2
  <2>4. None \notin Share
    OBVIOUS
  <2> QED
    BY <2>3, <2>4
<1>4. child' = child /\ tunnels' = tunnels /\ req' = [req EXCEPT ![r] = Idle]
  BY <1>2 DEF WrongPin, Exchanging, Valid, IInv, TypeInv
<1>5. TypeInv'
  BY <1>2, <1>3, <1>4 DEF IInv, TypeInv
<1>6. Invite' /\ Begun'
  <2>1. Invite'
    BY <1>2 DEF WrongPin, Exchanging, Valid, IInv, Invite
  <2>2. Begun'
    BY <1>2, <1>4 DEF IInv, TypeInv, Begun
  <2> QED
    BY <2>1, <2>2
<1>7. Stopped' /\ Activated'
  BY <1>1, <1>2, <1>3, <1>4 DEF IInv, TypeInv, Begun, Contested, Stopped, Activated
<1>8. Shared'
  BY <1>1, <1>2, <1>3, <1>4 DEF IInv, TypeInv, Begun, Contested, Stopped, Activated, Shared
<1>9. NoTunnelLeftBehind'
  BY <1>1, <1>2, <1>3, <1>4 DEF IInv, TypeInv, Begun, Contested, Stopped, Activated, Shared, NoTunnelLeftBehind
<1> QED
  BY <1>1, <1>5, <1>6, <1>7, <1>8, <1>9 DEF IInv

\* The invite is used up by the session that is given for it.
LEMMA AcceptUnaskedKeeps ==
  ASSUME IInv, NEW r \in Requests, AcceptUnasked(r), Tainting({})
  PROVE  IInv'
<1>1. tainted \subseteq tainted' /\ Contested'
  BY Taints
<1>2. share \in Share /\ req[r].at = "act"
  BY DEF AcceptUnasked, Accept, Exchanging, Valid, IInv, TypeInv
<1>3. share' \in Share /\ share' # None /\ share'.tunnel = share.tunnel
  <2> DEFINE m == share.sessions + 1
  <2>1. m \in Nat
    BY <1>2
  <2>2. share' = [share EXCEPT !.failures = share.failures, !.used = TRUE, !.sessions = m]
    BY DEF AcceptUnasked, Accept, Exchanging, Valid
  <2> HIDE DEF m
  <2>3. share' \in Share /\ share'.tunnel = share.tunnel
    BY <1>2, <2>1, <2>2
  <2>4. None \notin Share
    OBVIOUS
  <2> QED
    BY <2>3, <2>4
<1>4. child' = child /\ tunnels' = tunnels /\ req' = [req EXCEPT ![r] = [req[r] EXCEPT !.at = "token"]]
  BY <1>2 DEF AcceptUnasked, Accept, Exchanging, Valid, IInv, TypeInv
<1>5. TypeInv'
  <2>1. /\ req' \in [Requests -> [kind: Kinds \cup {None}, at: Places, provider: Nat, tunnel: Tunnels \cup {None}]]
        /\ \A p \in Requests : req'[p].at \in {"wait", "activate", "keep"} => req'[p].tunnel \in Tunnels
    BY <1>4, SteppedIs DEF IInv
  <2> HIDE DEF Share
  <2> QED
    BY <1>3, <1>4, <2>1 DEF IInv, TypeInv
<1>6. Invite' /\ Begun'
  <2>1. Invite'
    BY <1>2 DEF AcceptUnasked, Accept, Exchanging, Valid, IInv, Invite
  <2>2. Begun'
    BY <1>2, <1>4 DEF IInv, TypeInv, Begun
  <2> QED
    BY <2>1, <2>2
<1>7. Stopped' /\ Activated'
  BY <1>1, <1>2, <1>3, <1>4 DEF IInv, TypeInv, Begun, Contested, Stopped, Activated
<1>8. Shared'
  BY <1>1, <1>2, <1>3, <1>4 DEF IInv, TypeInv, Begun, Contested, Stopped, Activated, Shared
<1>9. NoTunnelLeftBehind'
  BY <1>1, <1>2, <1>3, <1>4 DEF IInv, TypeInv, Begun, Contested, Stopped, Activated, Shared, NoTunnelLeftBehind
<1> QED
  BY <1>1, <1>5, <1>6, <1>7, <1>8, <1>9 DEF IInv

LEMMA AcceptPinKeeps ==
  ASSUME IInv, NEW r \in Requests, AcceptPin(r), Tainting({})
  PROVE  IInv'
<1>1. tainted \subseteq tainted' /\ Contested'
  BY Taints
<1>2. share \in Share /\ req[r].at = "act"
  BY DEF AcceptPin, Accept, Exchanging, Valid, IInv, TypeInv
<1>3. share' \in Share /\ share' # None /\ share'.tunnel = share.tunnel
  <2> DEFINE m == share.sessions + 1
  <2>1. m \in Nat
    BY <1>2
  <2>2. share' = [share EXCEPT !.failures = 0, !.used = TRUE, !.sessions = m]
    BY DEF AcceptPin, Accept, Exchanging, Valid
  <2> HIDE DEF m
  <2>3. share' \in Share /\ share'.tunnel = share.tunnel
    BY <1>2, <2>1, <2>2
  <2>4. None \notin Share
    OBVIOUS
  <2> QED
    BY <2>3, <2>4
<1>4. child' = child /\ tunnels' = tunnels /\ req' = [req EXCEPT ![r] = [req[r] EXCEPT !.at = "token"]]
  BY <1>2 DEF AcceptPin, Accept, Exchanging, Valid, IInv, TypeInv
<1>5. TypeInv'
  <2>1. /\ req' \in [Requests -> [kind: Kinds \cup {None}, at: Places, provider: Nat, tunnel: Tunnels \cup {None}]]
        /\ \A p \in Requests : req'[p].at \in {"wait", "activate", "keep"} => req'[p].tunnel \in Tunnels
    BY <1>4, SteppedIs DEF IInv
  <2> HIDE DEF Share
  <2> QED
    BY <1>3, <1>4, <2>1 DEF IInv, TypeInv
<1>6. Invite' /\ Begun'
  <2>1. Invite'
    BY <1>2 DEF AcceptPin, Accept, Exchanging, Valid, IInv, Invite
  <2>2. Begun'
    BY <1>2, <1>4 DEF IInv, TypeInv, Begun
  <2> QED
    BY <2>1, <2>2
<1>7. Stopped' /\ Activated'
  BY <1>1, <1>2, <1>3, <1>4 DEF IInv, TypeInv, Begun, Contested, Stopped, Activated
<1>8. Shared'
  BY <1>1, <1>2, <1>3, <1>4 DEF IInv, TypeInv, Begun, Contested, Stopped, Activated, Shared
<1>9. NoTunnelLeftBehind'
  BY <1>1, <1>2, <1>3, <1>4 DEF IInv, TypeInv, Begun, Contested, Stopped, Activated, Shared, NoTunnelLeftBehind
<1> QED
  BY <1>1, <1>5, <1>6, <1>7, <1>8, <1>9 DEF IInv

LEMMA AddTokenKeeps ==
  ASSUME IInv, NEW r \in Requests, AddToken(r), Tainting({})
  PROVE  IInv'
<1> USE DEF AddToken
<1>1. tainted \subseteq tainted' /\ Contested'
  BY Taints
<1>2. TypeInv'
  BY DEF IInv, TypeInv
<1>3. Invite' /\ Begun'
  BY DEF IInv, TypeInv, Invite, Begun
<1>4. Stopped' /\ Activated'
  BY <1>1 DEF IInv, TypeInv, Begun, Contested, Stopped, Activated
<1>5. Shared'
  BY <1>1 DEF IInv, TypeInv, Begun, Contested, Stopped, Activated, Shared
<1>6. NoTunnelLeftBehind'
  BY <1>1 DEF IInv, TypeInv, Begun, Contested, Stopped, Activated, Shared, NoTunnelLeftBehind
<1> QED
  BY <1>1, <1>2, <1>3, <1>4, <1>5, <1>6 DEF IInv

\* Fewer tunnels run.
LEMMA TunnelExitsKeeps ==
  ASSUME IInv, NEW t \in Tunnels, TunnelExits(t), Tainting({})
  PROVE  IInv'
<1> USE DEF TunnelExits
<1>1. tainted \subseteq tainted' /\ Contested'
  BY Taints
<1>2. TypeInv'
  BY DEF IInv, TypeInv
<1>3. Invite' /\ Begun'
  BY DEF IInv, TypeInv, Invite, Begun
<1>4. Stopped' /\ Activated'
  BY <1>1 DEF IInv, TypeInv, Begun, Contested, Stopped, Activated
<1>5. Shared'
  BY <1>1 DEF IInv, TypeInv, Begun, Contested, Stopped, Activated, Shared
<1>6. NoTunnelLeftBehind'
  BY <1>1 DEF IInv, TypeInv, Begun, Contested, Stopped, Activated, Shared, NoTunnelLeftBehind
<1> QED
  BY <1>1, <1>2, <1>3, <1>4, <1>5, <1>6 DEF IInv

\* What the request held, or was about to clear, is tainted.
LEMMA CancelKeeps ==
  ASSUME IInv, NEW r \in Requests, Cancel(r), Tainting(Abandoned(r))
  PROVE  IInv'
<1> USE DEF Cancel, Abandoned
<1>1. tainted \subseteq tainted' /\ Abandoned(r) \subseteq tainted' /\ Contested'
  BY Taints
<1>2. TypeInv'
  BY DEF IInv, TypeInv
<1>3. Invite' /\ Begun'
  BY DEF IInv, TypeInv, Invite, Begun
<1>4. Stopped' /\ Activated'
  BY <1>1 DEF IInv, TypeInv, Begun, Contested, Stopped, Activated
<1>5. Shared'
  BY <1>1 DEF IInv, TypeInv, Begun, Contested, Stopped, Activated, Shared
<1>6. NoTunnelLeftBehind'
  BY SMTT(60), <1>1 DEF IInv, TypeInv, Begun, Contested, Stopped, Activated, Shared, NoTunnelLeftBehind
<1> QED
  BY <1>1, <1>2, <1>3, <1>4, <1>5, <1>6 DEF IInv

\* All tunnels that run are tainted.
LEMMA CrashKeeps ==
  ASSUME IInv, Crash, Tainting({t \in Tunnels : tunnels[t] = "running"})
  PROVE  IInv'
<1> USE DEF Crash
<1>1. tainted \subseteq tainted' /\ {t \in Tunnels : tunnels[t] = "running"} \subseteq tainted' /\ Contested'
  BY Taints
<1>2. TypeInv'
  BY DEF IInv, TypeInv
<1>3. Invite' /\ Begun'
  BY DEF IInv, TypeInv, Invite, Begun
<1>4. Stopped' /\ Activated'
  BY <1>1 DEF IInv, TypeInv, Begun, Contested, Stopped, Activated
<1>5. Shared'
  BY <1>1 DEF IInv, TypeInv, Begun, Contested, Stopped, Activated, Shared
<1>6. NoTunnelLeftBehind'
  BY <1>1 DEF IInv, TypeInv, Begun, Contested, Stopped, Activated, Shared, NoTunnelLeftBehind
<1> QED
  BY <1>1, <1>2, <1>3, <1>4, <1>5, <1>6 DEF IInv

-----------------------------------------------------------------------------
\* Before the first request there is no share and no tunnel.
LEMMA InitIInv == Init => IInv
<1> SUFFICES ASSUME Init PROVE IInv
  OBVIOUS
<1>1. TypeInv /\ Invite /\ Begun
  BY DEF Init, TypeInv, Invite, Begun
<1>2. Contested /\ Stopped /\ Activated /\ Shared
  BY DEF Init, Contested, Stopped, Activated, Shared
<1>3. NoTunnelLeftBehind
  BY DEF Init, NoTunnelLeftBehind
<1> QED
  BY <1>1, <1>2, <1>3 DEF IInv

\* One case for each group of actions, by their lemmas.
LEMMA NextIInv == IInv /\ [Next]_vars => IInv'
<1> SUFFICES ASSUME IInv, [Next]_vars PROVE IInv'
  OBVIOUS
<1>1. CASE UNCHANGED vars
  BY <1>1 DEF vars, code, IInv, TypeInv, Invite, Begun, Contested, Stopped, Activated, Shared, NoTunnelLeftBehind
<1>2. ASSUME NEW r \in Requests, Handle(r) \/ Downloading(r) \/ UrlArrives(r), Tainting({}) PROVE IInv'
  <2>1. CASE KillChild(r) \/ ClearShare(r) \/ NoProvider(r) \/ ProviderUnavailable(r) \/ UrlArrives(r)
    BY <1>2, <2>1, KillChildKeeps, ClearShareKeeps, NoProviderKeeps, ProviderUnavailableKeeps, UrlArrivesKeeps
  <2>2. CASE StartSsh(r) \/ StartCloudflared(r) \/ Fetch(r) \/ DownloadFails(r)
    BY <1>2, <2>2, StartSshKeeps, StartCloudflaredKeeps, FetchKeeps, DownloadFailsKeeps
  <2>3. CASE Install(r) \/ Installed(r) \/ InstallFails(r)
    BY <1>2, <2>3, InstallKeeps, InstalledKeeps, InstallFailsKeeps
  <2>4. CASE WaitFails(r) \/ Activate(r) \/ Keep(r)
    BY <1>2, <2>4, WaitFailsKeeps, ActivateKeeps, KeepKeeps
  <2> QED
    BY <1>2, <2>1, <2>2, <2>3, <2>4 DEF Handle, Downloading, Starting
<1>3. ASSUME NEW r \in Requests, Inviting(r), Tainting({}) PROVE IInv'
  <2>1. CASE Look(r) \/ Forget(r) \/ Answer(r) \/ ExchangeRefused(r)
    BY <1>3, <2>1, LookKeeps, ForgetKeeps, AnswerKeeps, ExchangeRefusedKeeps
  <2>2. CASE WrongPin(r) \/ AcceptUnasked(r) \/ AcceptPin(r) \/ AddToken(r)
    BY <1>3, <2>2, WrongPinKeeps, AcceptUnaskedKeeps, AcceptPinKeeps, AddTokenKeeps
  <2> QED
    BY <1>3, <2>1, <2>2 DEF Inviting
<1>4. ASSUME NEW r \in Requests, NEW kind \in Kinds, Begin(r, kind), Tainting({}) PROVE IInv'
  BY <1>4, BeginKeeps
<1>5. ASSUME NEW r \in Requests, Cancel(r), Tainting(Abandoned(r)) PROVE IInv'
  BY <1>5, CancelKeeps
<1>6. ASSUME NEW t \in Tunnels, TunnelExits(t), Tainting({}) PROVE IInv'
  BY <1>6, TunnelExitsKeeps
<1>7. CASE Crash /\ Tainting({t \in Tunnels : tunnels[t] = "running"})
  BY <1>7, CrashKeeps
<1> QED
  BY <1>1, <1>2, <1>3, <1>4, <1>5, <1>6, <1>7 DEF Next

\* The inductive invariant holds in every behaviour.
LEMMA Inductive == Spec => []IInv
  BY InitIInv, NextIInv, PTL DEF Spec

(* However many handlers race with one invite, they get one session out of *)
(* it and at most PinMaxAttempts wrong PINs into it (remote.rs             *)
(* invite_exchange): Invite.                                               *)
THEOREM InvitesBounded == Spec => []InviteIsBounded
<1>1. IInv => InviteIsBounded
  BY DEF IInv, TypeInv, Share, Invite, InviteIsBounded
<1> QED
  BY <1>1, Inductive, PTL

(* No tunnel is left behind, but by requests that overlapped, were dropped *)
(* or were cut off by a crash (remote.rs start_share, stop_share), however *)
(* many there are.                                                         *)
THEOREM NoneLeftBehind == Spec => []NoTunnelLeftBehind
<1>1. IInv => NoTunnelLeftBehind
  BY DEF IInv
<1> QED
  BY <1>1, Inductive, PTL

(* With the same exceptions an active share has its tunnel process, whose  *)
(* end is noticed (remote.rs sync_share_from_process): Shared.             *)
THEOREM SharesHaveTunnels == Spec => []ShareHasItsTunnel
<1>1. IInv => ShareHasItsTunnel
  BY DEF IInv, Shared, ShareHasItsTunnel
<1> QED
  BY <1>1, Inductive, PTL
=============================================================================
