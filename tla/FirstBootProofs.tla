--------------------------- MODULE FirstBootProofs ---------------------------
(***************************************************************************)
(* Proofs about FirstBoot for any number of power losses and failures.     *)
(***************************************************************************)
EXTENDS FirstBoot, SequenceTheorems, TLAPS

(* What an instruction of the Containerfile has to show when it is done. *)
Effect(i) ==
    /\ i = "embed-script" => "script" \in files
    /\ i = "embed-unit" => "unit" \in files
    /\ i = "enable" => /\ EnableUnits(wants) \subseteq units
                       /\ \A u \in EnableUnits(wants) : UnitExists(u)

(* The instructions up to the next one have taken effect, and those of a   *)
(* built image all of them.                                                *)
BuildInv ==
    /\ next \in 1..Len(Containerfile(wants)) + 1
    /\ status \in {"building", "built"} =>
          \A m \in 1..next - 1 : Effect(Containerfile(wants)[m])
    /\ status = "built" => next = Len(Containerfile(wants)) + 1

(* The script runs in a guest of a built image that has no marker yet; all *)
(* its commands before the current one have run, in this boot, and every   *)
(* run that made a key but no marker has cost a failure or a power loss.   *)
ScriptInv ==
    /\ power = "on" => status = "built"
    /\ command # 0 => power = "on" /\ ~Marker
    /\ \A n \in 1..Len(Script) : n < command => Script[n] \in settings
    /\ command > 2 => "openssl" \in programs /\ key # 0
    /\ command > 3 => crt = key
    /\ key <= trouble + 1
    /\ command <= 2 /\ ~Marker => key <= trouble

FirstBootInv ==
    FirstBootTypeOK /\ BuildInv /\ ScriptInv /\ MarkerMeansConfigured

------------------------------------------------------------------------------
(* Sequences of instructions *)

Has(s, i) == \E n \in 1..Len(s) : s[n] = i

LEMMA ConcatHas ==
    ASSUME NEW S, NEW s \in Seq(S), NEW t \in Seq(S), NEW i
    PROVE  /\ s \o t \in Seq(S) /\ Len(s \o t) = Len(s) + Len(t)
           /\ Has(s, i) => Has(s \o t, i)
           /\ Has(t, i) => Has(s \o t, i)
<1>1. /\ s \o t \in Seq(S) /\ Len(s \o t) = Len(s) + Len(t)
      /\ \A n \in 1..Len(s) + Len(t) :
            (s \o t)[n] = IF n <= Len(s) THEN s[n] ELSE t[n - Len(s)]
      BY ConcatProperties
<1>2. Len(s) \in Nat /\ Len(t) \in Nat
      OBVIOUS
<1>3. ASSUME NEW n \in 1..Len(s), s[n] = i PROVE Has(s \o t, i)
  <2>1. n \in 1..Len(s) + Len(t) /\ n <= Len(s)
        BY <1>2
  <2>2. (s \o t)[n] = i
        BY <1>1, <1>3, <2>1
  <2> QED
      BY <1>1, <2>1, <2>2 DEF Has
<1>4. ASSUME NEW n \in 1..Len(t), t[n] = i PROVE Has(s \o t, i)
  <2>1. /\ n + Len(s) \in 1..Len(s) + Len(t) /\ ~(n + Len(s) <= Len(s))
        /\ (n + Len(s)) - Len(s) = n
        BY <1>2
  <2>2. (s \o t)[n + Len(s)] = i
        BY <1>1, <1>4, <2>1
  <2> QED
      BY <1>1, <2>1, <2>2 DEF Has
<1> QED
    BY <1>1, <1>3, <1>4 DEF Has

Instructions == {"install-ssh", "install-rdp", "embed-script", "embed-unit",
                 "install-packages", "enable", "custom"}

LEMMA PartFacts ==
    ASSUME NEW c, NEW wanted, NEW s \in Seq(Instructions)
    PROVE  /\ Part(c, wanted, s) \in Seq(Instructions)
           /\ Len(Part(c, wanted, s)) \in Nat /\ Len(Part(c, wanted, s)) <= Len(s)
           /\ c \in wanted => Part(c, wanted, s) = s
<1>1. /\ <<>> \in Seq(Instructions) /\ Len(<<>>) = 0
      /\ Len(s) \in Nat
      OBVIOUS
<1> QED
    BY <1>1 DEF Part

(* A Containerfile has at most seven instructions, and has those that put  *)
(* the remote desktop into the image and enable the services asked for.    *)
LEMMA ContainerfileFacts ==
    ASSUME NEW c \in SUBSET Customizations
    PROVE  /\ Containerfile(c) \in Seq(Instructions)
           /\ Len(Containerfile(c)) \in Nat /\ Len(Containerfile(c)) <= 7
           /\ c = Customizations => Len(Containerfile(c)) = 7
           /\ "rdp" \in c => /\ Has(Containerfile(c), "embed-script")
                             /\ Has(Containerfile(c), "embed-unit")
           /\ EnableUnits(c) # {} => Has(Containerfile(c), "enable")
<1> DEFINE ssh == Part("ssh", c, <<"install-ssh">>)
           rdp == Part("rdp", c, <<"install-rdp", "embed-script", "embed-unit">>)
           packages == Part("packages", c, <<"install-packages">>)
           enable == IF EnableUnits(c) # {} THEN <<"enable">> ELSE <<>>
           custom == Part("custom", c, <<"custom">>)
<1>0. ASSUME NEW i \in Instructions, NEW w
      PROVE  /\ Part(w, c, <<i>>) \in Seq(Instructions)
             /\ Len(Part(w, c, <<i>>)) \in Nat /\ Len(Part(w, c, <<i>>)) <= 1
             /\ w \in c => Len(Part(w, c, <<i>>)) = 1
  <2> DEFINE one == <<i>>
  <2>1. one \in Seq(Instructions) /\ Len(one) = 1
        OBVIOUS
  <2> HIDE DEF one
  <2>2. /\ Part(w, c, one) \in Seq(Instructions)
        /\ Len(Part(w, c, one)) \in Nat /\ Len(Part(w, c, one)) <= Len(one)
        /\ w \in c => Part(w, c, one) = one
        BY <2>1, PartFacts
  <2>3. /\ Part(w, c, one) \in Seq(Instructions)
        /\ Len(Part(w, c, one)) \in Nat /\ Len(Part(w, c, one)) <= 1
        /\ w \in c => Len(Part(w, c, one)) = 1
        BY <2>1, <2>2, Zenon
  <2> QED
      BY <2>3 DEF one
<1>1. ssh \in Seq(Instructions) /\ Len(ssh) \in Nat /\ Len(ssh) <= 1 /\ ("ssh" \in c => Len(ssh) = 1)
      BY <1>0 DEF Instructions
<1>2. /\ rdp \in Seq(Instructions) /\ Len(rdp) \in Nat /\ Len(rdp) <= 3
      /\ "rdp" \in c => Len(rdp) = 3 /\ Has(rdp, "embed-script")
                        /\ Has(rdp, "embed-unit")
  <2> DEFINE all == <<"install-rdp", "embed-script", "embed-unit">>
  <2>1. /\ all \in Seq(Instructions) /\ Len(all) = 3
        /\ 2 \in 1..3 /\ all[2] = "embed-script"
        /\ 3 \in 1..3 /\ all[3] = "embed-unit"
        BY DEF Instructions
  <2> HIDE DEF all
  <2>2. /\ Part("rdp", c, all) \in Seq(Instructions)
        /\ Len(Part("rdp", c, all)) \in Nat
        /\ Len(Part("rdp", c, all)) <= Len(all)
        /\ "rdp" \in c => Part("rdp", c, all) = all
        BY <2>1, PartFacts, Zenon
  <2>3. Has(all, "embed-script") /\ Has(all, "embed-unit")
        BY <2>1 DEF Has
  <2>4. Len(Part("rdp", c, all)) <= 3
        BY <2>1, <2>2, Zenon
  <2> QED
      BY <2>1, <2>2, <2>3, <2>4, Zenon DEF all
<1>3. /\ packages \in Seq(Instructions) /\ Len(packages) \in Nat /\ Len(packages) <= 1
      /\ "packages" \in c => Len(packages) = 1
      BY <1>0 DEF Instructions
<1>4. /\ enable \in Seq(Instructions) /\ Len(enable) \in Nat /\ Len(enable) <= 1
      /\ EnableUnits(c) # {} => Len(enable) = 1 /\ Has(enable, "enable")
  <2>1. /\ <<"enable">> \in Seq(Instructions) /\ Len(<<"enable">>) = 1
        /\ 1 \in 1..1 /\ <<"enable">>[1] = "enable"
        BY DEF Instructions
  <2>2. Has(<<"enable">>, "enable")
        BY <2>1 DEF Has
  <2>3. <<>> \in Seq(Instructions) /\ Len(<<>>) = 0
        OBVIOUS
  <2>4. CASE EnableUnits(c) # {}
        BY <2>1, <2>2, <2>4
  <2>5. CASE EnableUnits(c) = {}
        BY <2>3, <2>5
  <2> QED
      BY <2>4, <2>5
<1>5. /\ custom \in Seq(Instructions) /\ Len(custom) \in Nat /\ Len(custom) <= 1
      /\ "custom" \in c => Len(custom) = 1
      BY <1>0 DEF Instructions
<1>6. Containerfile(c) = (((ssh \o rdp) \o packages) \o enable) \o custom
      BY DEF Containerfile
<1>7. c = Customizations =>
         /\ "ssh" \in c /\ "rdp" \in c /\ "packages" \in c /\ "custom" \in c
         /\ EnableUnits(c) # {}
      BY DEF Customizations, EnableUnits
<1> HIDE DEF ssh, rdp, packages, enable, custom
<1>8. /\ ssh \o rdp \in Seq(Instructions)
      /\ Len(ssh \o rdp) = Len(ssh) + Len(rdp)
      /\ \A i : Has(rdp, i) => Has(ssh \o rdp, i)
      BY <1>1, <1>2, ConcatHas
<1>9. /\ (ssh \o rdp) \o packages \in Seq(Instructions)
      /\ Len((ssh \o rdp) \o packages) = Len(ssh \o rdp) + Len(packages)
      /\ \A i : Has(ssh \o rdp, i) => Has((ssh \o rdp) \o packages, i)
      BY <1>3, <1>8, ConcatHas
<1> DEFINE front == (ssh \o rdp) \o packages
<1> HIDE DEF front
<1>10. /\ front \o enable \in Seq(Instructions)
       /\ Len(front \o enable) = Len(front) + Len(enable)
       /\ \A i : Has(front, i) \/ Has(enable, i) => Has(front \o enable, i)
       BY <1>4, <1>9, ConcatHas DEF front
<1>11. /\ (front \o enable) \o custom \in Seq(Instructions)
       /\ Len((front \o enable) \o custom) = Len(front \o enable) + Len(custom)
       /\ \A i : Has(front \o enable, i) => Has((front \o enable) \o custom, i)
       BY <1>5, <1>10, ConcatHas
<1>12. Containerfile(c) = (front \o enable) \o custom
       BY <1>6 DEF front
<1>13. /\ Len(front) = Len(ssh) + Len(rdp) + Len(packages)
       /\ \A i : Has(rdp, i) => Has(front, i)
       BY <1>8, <1>9 DEF front
<1>14. \A i : Has(rdp, i) \/ Has(enable, i) => Has(Containerfile(c), i)
       BY <1>10, <1>11, <1>12, <1>13, Zenon
<1> DEFINE total == Len(Containerfile(c))
<1>18. total = Len(ssh) + Len(rdp) + Len(packages) + Len(enable) + Len(custom)
       BY <1>10, <1>11, <1>12, <1>13, Zenon
<1> HIDE DEF total
<1>15. Len(Containerfile(c)) \in Nat /\ Len(Containerfile(c)) <= 7
  <2>1. total \in Nat /\ total <= 7
        BY <1>1, <1>2, <1>3, <1>4, <1>5, <1>18
  <2> QED
      BY <2>1 DEF total
<1>16. c = Customizations => Len(Containerfile(c)) = 7
  <2>1. ASSUME c = Customizations PROVE total = 7
    <3>1. /\ Len(ssh) = 1 /\ Len(rdp) = 3 /\ Len(packages) = 1
          /\ Len(enable) = 1 /\ Len(custom) = 1
          BY <1>1, <1>2, <1>3, <1>4, <1>5, <1>7, <2>1, Zenon
    <3> QED
        BY <1>18, <3>1
  <2> QED
      BY <2>1 DEF total
<1>17. Containerfile(c) \in Seq(Instructions)
       BY <1>11, <1>12
<1> QED
    BY <1>2, <1>4, <1>14, <1>15, <1>16, <1>17

LEMMA ScriptFacts ==
    /\ Len(Script) = 10
    /\ \A n \in 1..10 : /\ Script[n] = "key" <=> n = 2
                        /\ Script[n] = "crt" <=> n = 3
                        /\ Script[n] = "touch" <=> n = 10
    /\ \A s \in Configured : \E n \in 4..9 : Script[n] = s
<1>1. /\ Len(Script) = 10 /\ Script[1] = "mkdir" /\ Script[2] = "key"
      /\ Script[3] = "crt" /\ Script[4] = "chown" /\ Script[5] = "enable"
      /\ Script[6] = "set-tls-cert" /\ Script[7] = "set-tls-key"
      /\ Script[8] = "set-credentials" /\ Script[9] = "disable-view-only"
      /\ Script[10] = "touch"
      BY DEF Script
<1>2. \A n \in 1..10 : \/ n = 1 \/ n = 2 \/ n = 3 \/ n = 4 \/ n = 5
                        \/ n = 6 \/ n = 7 \/ n = 8 \/ n = 9 \/ n = 10
      OBVIOUS
<1>3. 4 \in 4..9 /\ 5 \in 4..9 /\ 6 \in 4..9 /\ 7 \in 4..9 /\ 8 \in 4..9 /\ 9 \in 4..9
      OBVIOUS
<1>4. \A s \in Configured : \E n \in 4..9 : Script[n] = s
      BY <1>1, <1>3 DEF Configured
<1>5. ASSUME NEW n \in 1..10
      PROVE  /\ Script[n] = "key" <=> n = 2
             /\ Script[n] = "crt" <=> n = 3
             /\ Script[n] = "touch" <=> n = 10
  <2>1. CASE n \in {1, 4, 5, 6, 7, 8, 9}
    <3>1. Script[n] \in {"mkdir", "chown", "enable", "set-tls-cert",
                         "set-tls-key", "set-credentials", "disable-view-only"}
          BY <1>1, <2>1
    <3> QED
        BY <2>1, <3>1
  <2> QED
      BY <1>1, <1>2, <2>1
<1> QED
    BY <1>1, <1>4, <1>5

------------------------------------------------------------------------------
(* podman build *)

LEMMA TypeFacts ==
    ASSUME FirstBootTypeOK
    PROVE  /\ wants \in SUBSET Customizations
           /\ Containerfile(wants) \in Seq(Instructions)
           /\ Len(Containerfile(wants)) \in Nat /\ Len(Containerfile(wants)) <= 7
           /\ Len(Containerfile(Customizations)) = 7
           /\ Len(Script) = 10
           /\ next \in Nat /\ command \in Nat /\ key \in Nat /\ trouble \in Nat
<1>1. wants \in SUBSET Customizations /\ Customizations \in SUBSET Customizations
      BY DEF FirstBootTypeOK
<1>2. /\ Containerfile(wants) \in Seq(Instructions)
      /\ Len(Containerfile(wants)) \in Nat /\ Len(Containerfile(wants)) <= 7
      /\ Len(Containerfile(Customizations)) = 7
      BY <1>1, ContainerfileFacts
<1>3. next \in Nat /\ command \in Nat /\ key \in Nat /\ trouble \in Nat
      BY <1>2, ScriptFacts, FirstBootAssumption DEF FirstBootTypeOK
<1> QED
    BY <1>1, <1>2, <1>3, ScriptFacts

(* What an instruction has done is not undone by the later ones. *)
Grows == /\ programs \subseteq programs' /\ files \subseteq files'
         /\ units \subseteq units' /\ wants' = wants

LEMMA EffectKept ==
    ASSUME Grows, NEW i, Effect(i)
    PROVE  Effect(i)'
<1>1. ASSUME NEW u, UnitExists(u), u \in {"sshd"} \cup RdpUnits
      PROVE  UnitExists(u)'
      BY <1>1 DEF Grows, UnitExists, RdpUnits
<1>2. EnableUnits(wants) \subseteq {"sshd"} \cup RdpUnits
      BY DEF EnableUnits
<1>3. EnableUnits(wants)' = EnableUnits(wants)
      BY DEF Grows, EnableUnits
<1>4. i = "enable" => /\ EnableUnits(wants)' \subseteq units'
                      /\ \A u \in EnableUnits(wants)' : UnitExists(u)'
      BY <1>1, <1>2, <1>3 DEF Effect, Grows
<1>5. /\ i = "embed-script" => "script" \in files'
      /\ i = "embed-unit" => "unit" \in files'
      BY DEF Effect, Grows
<1> QED
    BY <1>4, <1>5 DEF Effect

(* The guest is off while an image is made. *)
LEMMA GuestRests ==
    ASSUME FirstBootTypeOK, ScriptInv, status # "built", UNCHANGED guestVars
    PROVE  /\ ScriptInv'
           /\ MarkerMeansConfigured => MarkerMeansConfigured'
<1>1. power # "on" /\ command = 0
      BY DEF ScriptInv
<1>2. /\ power' = power /\ command' = 0 /\ settings' = settings /\ key' = key
      /\ crt' = crt /\ trouble' = trouble /\ Marker' = Marker
      BY <1>1 DEF guestVars, Marker
<1>3. ~(0 > 2) /\ ~(0 > 3) /\ \A n \in 1..Len(Script) : ~(n < 0)
      BY ScriptFacts
<1>4. key <= trouble + 1 /\ (~Marker => key <= trouble)
      BY <1>1 DEF ScriptInv
<1>5. ScriptInv'
  <2>1. key' <= trouble' + 1 /\ (~Marker' => key' <= trouble')
        BY <1>2, <1>4
  <2>2. \A n \in 1..Len(Script) : n < command' => Script[n] \in settings'
        BY <1>2, <1>3
  <2> QED
      BY <1>1, <1>2, <1>3, <2>1, <2>2 DEF ScriptInv
<1> QED
    BY <1>2, <1>5 DEF MarkerMeansConfigured

LEMMA AdvanceStep ==
    ASSUME FirstBootInv, NEW i, Building(i), Advance, Grows, Effect(i)',
           programs' \subseteq Programs, files' \subseteq {"script", "unit"},
           units' \subseteq RdpUnits \cup {"sshd"}
    PROVE  FirstBootInv'
<1> USE DEF FirstBootInv
<1>1. /\ status = "building" /\ next <= Len(Containerfile(wants))
      /\ Containerfile(wants)[next] = i
      BY DEF Building, Instruction
<1>2. /\ next' = next + 1 /\ status' = status /\ wants' = wants
      /\ UNCHANGED guestVars
      BY DEF Advance
<1>3. next \in Nat /\ next >= 1
      BY TypeFacts DEF FirstBootTypeOK
<1>4. Containerfile(wants)' = Containerfile(wants)
      BY <1>2 DEF Containerfile, Part, EnableUnits
<1>5. BuildInv'
  <2>1. ASSUME NEW m \in 1..next' - 1 PROVE Effect(Containerfile(wants)[m])'
    <3>1. CASE m = next
          BY <1>1, <1>2, <1>4, <3>1 DEF Effect
    <3>2. CASE m # next
      <4>1. m \in 1..next - 1
            BY <1>2, <1>3, <2>1, <3>2
      <4>2. Effect(Containerfile(wants)[m])
            BY <1>1, <4>1 DEF BuildInv
      <4> DEFINE j == Containerfile(wants)[m]
      <4>3. Effect(j)
            BY <4>2
      <4>4. j' = j
            BY <1>4
      <4> HIDE DEF j
      <4>5. ASSUME NEW i2, i2 = j, Effect(i2) PROVE Effect(i2)'
            BY <4>5, EffectKept
      <4>6. Effect(j)'
            BY <4>3, <4>4, <4>5 DEF Effect
      <4> QED
          BY <4>6 DEF j
    <3> QED
        BY <3>1, <3>2
  <2>2. next' \in 1..Len(Containerfile(wants)') + 1
        BY <1>1, <1>2, <1>3, <1>4, TypeFacts
  <2> QED
      BY <1>1, <1>2, <2>1, <2>2 DEF BuildInv
<1>6. ScriptInv' /\ MarkerMeansConfigured'
      BY <1>1, <1>2, GuestRests
<1>7. FirstBootTypeOK'
  <2>1. next' \in 1..Len(Containerfile(Customizations)) + 1
    <3> DEFINE len == Len(Containerfile(wants))
               all == Len(Containerfile(Customizations))
    <3>1. len \in Nat /\ len <= 7 /\ all = 7 /\ next <= len
          BY <1>1, TypeFacts
    <3> HIDE DEF len, all
    <3>2. next' \in 1..all + 1
          BY <1>2, <1>3, <3>1
    <3> QED
        BY <3>2 DEF all
  <2>2. UNCHANGED <<wants, status, power, command, settings, key, crt, trouble>>
        BY <1>2 DEF guestVars
  <2> QED
      BY <2>1, <2>2 DEF FirstBootTypeOK
<1> QED
    BY <1>5, <1>6, <1>7

LEMMA BuildStep ==
    ASSUME FirstBootInv, PodmanBuild
    PROVE  FirstBootInv'
<1> USE DEF FirstBootInv
<1>0. /\ programs \subseteq Programs /\ files \subseteq {"script", "unit"}
      /\ units \subseteq RdpUnits \cup {"sshd"}
      BY DEF FirstBootTypeOK
<1>1. ASSUME NEW i \in {"install-ssh", "install-rdp"}, NEW program,
             NEW packages \in SUBSET Programs, Install(i, program, packages)
      PROVE  FirstBootInv'
  <2>1. Building(i) /\ Advance /\ files' = files /\ units' = units
        BY <1>1 DEF Install
  <2>2. programs \subseteq programs' /\ programs' \subseteq Programs
        BY <1>0, <1>1 DEF Install
  <2>3. Grows
        BY <2>1, <2>2 DEF Grows, Advance
  <2>4. Effect(i)'
        BY DEF Effect
  <2> QED
      BY <1>0, <2>1, <2>2, <2>3, <2>4, AdvanceStep
<1>2. CASE InstallPackages
  <2>1. /\ Building("install-packages") /\ Advance
        /\ files' = files /\ units' = units
        BY <1>2 DEF InstallPackages
  <2>2. programs \subseteq programs' /\ programs' \subseteq Programs
        BY <1>0, <1>2 DEF InstallPackages
  <2>3. Grows
        BY <2>1, <2>2 DEF Grows, Advance
  <2>4. Effect("install-packages")'
        BY DEF Effect
  <2> QED
      BY <1>0, <2>1, <2>2, <2>3, <2>4, AdvanceStep
<1>3. ASSUME NEW i, NEW file \in {"script", "unit"}, Embed(i, file),
             i = "embed-script" => file = "script",
             i = "embed-unit" => file = "unit",
             i # "enable"
      PROVE  FirstBootInv'
  <2>1. /\ Building(i) /\ Advance /\ files' = files \cup {file}
        /\ programs' = programs /\ units' = units
        BY <1>3 DEF Embed
  <2>2. Grows /\ files' \subseteq {"script", "unit"}
        BY <1>0, <2>1 DEF Grows, Advance
  <2>3. Effect(i)'
        BY <1>3, <2>1 DEF Effect
  <2> QED
      BY <1>0, <2>1, <2>2, <2>3, AdvanceStep
<1>4. CASE EnableServices
  <2>1. /\ Building("enable") /\ Advance
        /\ units' = units \cup EnableUnits(wants)
        /\ programs' = programs /\ files' = files /\ wants' = wants
        /\ \A u \in EnableUnits(wants) : UnitExists(u)
        BY <1>4 DEF EnableServices, Advance
  <2>2. Grows /\ units' \subseteq RdpUnits \cup {"sshd"}
        BY <1>0, <2>1 DEF Grows, EnableUnits
  <2>3. Effect("enable")'
    <3>1. EnableUnits(wants)' = EnableUnits(wants)
          BY <2>1 DEF EnableUnits
    <3>2. \A u : UnitExists(u)' <=> UnitExists(u)
          BY <2>1 DEF UnitExists
    <3> QED
        BY <2>1, <3>1, <3>2 DEF Effect
  <2> QED
      BY <1>0, <2>1, <2>2, <2>3, AdvanceStep
<1>5. CASE Custom
  <2>1. /\ Building("custom") /\ Advance /\ Effect("custom")' /\ Grows
        /\ programs' = programs /\ files' = files /\ units' = units
        BY <1>5 DEF Custom, Advance, Grows, Effect
  <2> QED
      BY <1>0, <2>1, AdvanceStep
<1>6. CASE InstructionFails \/ ImageBuilt
  <2>1. /\ status = "building" /\ status' \in {"built", "failed"}
        /\ UNCHANGED <<wants, next, programs, files, units, guestVars>>
        /\ status' = "built" => next = Len(Containerfile(wants)) + 1
        BY <1>6 DEF InstructionFails, ImageBuilt
  <2>2. ScriptInv' /\ MarkerMeansConfigured'
        BY <2>1, GuestRests
  <2>3. BuildInv'
    <3>1. Containerfile(wants)' = Containerfile(wants)
          BY <2>1 DEF Containerfile, Part, EnableUnits
    <3>2. ASSUME NEW m \in 1..next - 1
          PROVE  Effect(Containerfile(wants)[m])'
      <4>1. Effect(Containerfile(wants)[m])
            BY <2>1 DEF BuildInv
      <4> QED
          BY <2>1, <3>1, <4>1 DEF Effect, EnableUnits, UnitExists
    <3>3. next' \in 1..Len(Containerfile(wants)') + 1
          BY <2>1, <3>1 DEF BuildInv
    <3> QED
        BY <2>1, <3>1, <3>2, <3>3 DEF BuildInv
  <2>4. FirstBootTypeOK'
        BY <2>1 DEF FirstBootTypeOK, guestVars
  <2> QED
      BY <2>2, <2>3, <2>4
<1>7. CASE InstallSsh \/ InstallRdp
  <2>1. {"sshd"} \in SUBSET Programs /\ {"grdctl", "openssl"} \in SUBSET Programs
        BY DEF Programs
  <2>2. CASE InstallSsh
        BY <1>1, <2>1, <2>2, Zenon DEF InstallSsh
  <2>3. CASE InstallRdp
        BY <1>1, <2>1, <2>3, Zenon DEF InstallRdp
  <2> QED
      BY <1>7, <2>2, <2>3
<1>8. CASE EmbedScript \/ EmbedUnit
  <2>1. CASE EmbedScript
    <3>1. Embed("embed-script", "script")
          BY <2>1 DEF EmbedScript
    <3> QED
        BY <1>3, <3>1
  <2>2. CASE EmbedUnit
    <3>1. Embed("embed-unit", "unit")
          BY <2>2 DEF EmbedUnit
    <3> QED
        BY <1>3, <3>1
  <2> QED
      BY <1>8, <2>1, <2>2
<1> QED
    BY <1>2, <1>4, <1>5, <1>6, <1>7, <1>8 DEF PodmanBuild

LEMMA GenerateStep ==
    ASSUME FirstBootInv, NEW c \in SUBSET Customizations, GenerateContainerfile(c)
    PROVE  FirstBootInv'
<1> USE DEF FirstBootInv
<1>1. /\ status \in {"none", "failed"} /\ wants' = c /\ status' = "building"
      /\ next' = 1 /\ programs' \subseteq Programs /\ files' = {} /\ units' = {}
      /\ UNCHANGED guestVars
      BY DEF GenerateContainerfile
<1>2. ScriptInv' /\ MarkerMeansConfigured'
      BY <1>1, GuestRests
<1>3. Len(Containerfile(c)) \in Nat /\ Len(Containerfile(Customizations)) = 7
      BY ContainerfileFacts, TypeFacts
<1>4. 1 \in 1..Len(Containerfile(c)) + 1
      BY <1>3
<1>5. 1 \in 1..Len(Containerfile(Customizations)) + 1
      BY <1>3
<1>6. BuildInv'
  <2>1. Containerfile(wants)' = Containerfile(c)
        BY <1>1 DEF Containerfile, Part, EnableUnits
  <2>2. \A m \in 1..next' - 1 : FALSE
        BY <1>1
  <2> QED
      BY <1>1, <1>4, <2>1, <2>2 DEF BuildInv
<1>7. FirstBootTypeOK'
      BY <1>1, <1>5 DEF FirstBootTypeOK, guestVars
<1> QED
    BY <1>2, <1>6, <1>7

------------------------------------------------------------------------------
(* The guest *)

LEMMA ImageKept ==
    ASSUME BuildInv, UNCHANGED imageVars
    PROVE  BuildInv'
<1>1. /\ wants' = wants /\ status' = status /\ next' = next
      /\ programs' = programs /\ files' = files /\ units' = units
      BY DEF imageVars
<1>2. Containerfile(wants)' = Containerfile(wants)
      BY <1>1 DEF Containerfile, Part, EnableUnits
<1>3. \A i : Effect(i)' <=> Effect(i)
      BY <1>1 DEF Effect, EnableUnits, UnitExists
<1>4. ASSUME NEW m \in 1..next' - 1, status \in {"building", "built"}
      PROVE  Effect(Containerfile(wants)[m])'
  <2>1. Effect(Containerfile(wants)[m])
        BY <1>1, <1>4 DEF BuildInv
  <2> QED
      BY <1>1, <1>2, <2>1 DEF Effect, EnableUnits, UnitExists
<1> QED
    BY <1>1, <1>2, <1>4 DEF BuildInv

(* The numbers of a guest, for the arithmetic. *)
LEMMA Numbers ==
    ASSUME FirstBootTypeOK
    PROVE  /\ key \in Nat /\ crt \in Nat /\ crt <= key
           /\ trouble \in Nat /\ MaxTrouble \in Nat /\ trouble <= MaxTrouble
           /\ command \in Nat /\ command <= 10
           /\ command # 0 => command \in 1..10
<1>1. command \in 0..10
      BY ScriptFacts DEF FirstBootTypeOK
<1>2. /\ key \in 0..MaxTrouble + 1 /\ crt \in 0..key /\ trouble \in 0..MaxTrouble
      BY DEF FirstBootTypeOK
<1> QED
    BY <1>1, <1>2, FirstBootAssumption

LEMMA GuestTyped ==
    ASSUME FirstBootTypeOK, UNCHANGED imageVars, power' \in {"off", "on"},
           command' \in Nat, command' <= 10,
           settings' \subseteq {Script[n] : n \in 1..Len(Script)},
           key' \in Nat, key' <= MaxTrouble + 1, crt' \in Nat, crt' <= key',
           trouble' \in Nat, trouble' <= MaxTrouble
    PROVE  FirstBootTypeOK'
<1>1. /\ command' \in 0..Len(Script)
      /\ key' \in 0..MaxTrouble + 1 /\ crt' \in 0..key'
      /\ trouble' \in 0..MaxTrouble
      BY ScriptFacts, FirstBootAssumption
<1> QED
    BY <1>1 DEF FirstBootTypeOK, imageVars

(* Steps that end the script's run, or leave the guest's disk alone. *)
LEMMA RestStep ==
    ASSUME FirstBootInv, UNCHANGED <<imageVars, settings, key, crt>>,
           power' \in {"off", "on"}, power' = "on" => status = "built",
           \/ command' = 0
           \/ command' = 1 /\ power' = "on" /\ ~Marker,
           trouble' \in {trouble, trouble + 1}, trouble' <= MaxTrouble,
           trouble' = trouble => command <= 2 \/ Marker
    PROVE  FirstBootInv'
<1> USE DEF FirstBootInv
<1>1. /\ settings' = settings /\ key' = key /\ crt' = crt
      /\ programs' = programs /\ status' = status /\ Marker' = Marker
      BY DEF imageVars, Marker
<1>2. command' \in Nat /\ command' <= 1
      OBVIOUS
<1>3. key <= trouble' + 1 /\ (~Marker => key <= trouble')
  <2>1. key <= trouble + 1 /\ (command <= 2 /\ ~Marker => key <= trouble)
        BY DEF ScriptInv
  <2>2. CASE trouble' = trouble
        BY <2>1, <2>2
  <2>3. CASE trouble' = trouble + 1
        BY <2>1, <2>3, Numbers
  <2> QED
      BY <2>2, <2>3
<1>4. ScriptInv'
  <2>1. ~(command' > 2) /\ ~(command' > 3)
        BY <1>2
  <2>2. \A n \in 1..Len(Script) : ~(n < command')
        BY <1>2, ScriptFacts
  <2>3. key' <= trouble' + 1 /\ (~Marker' => key' <= trouble')
        BY <1>1, <1>3
  <2> QED
      BY <1>1, <2>1, <2>2, <2>3 DEF ScriptInv
<1>5. MarkerMeansConfigured'
      BY <1>1 DEF MarkerMeansConfigured
<1>6. BuildInv'
      BY ImageKept
<1>7. FirstBootTypeOK'
  <2>1. key <= MaxTrouble + 1
        BY DEF FirstBootTypeOK
  <2>2. trouble' \in Nat
        BY Numbers
  <2>3. settings' \subseteq {Script[n] : n \in 1..Len(Script)}
        BY <1>1 DEF FirstBootTypeOK
  <2> QED
      BY <1>1, <1>2, <2>1, <2>2, <2>3, Numbers, GuestTyped
<1> QED
    BY <1>4, <1>5, <1>6, <1>7

LEMMA CommandSucceedsStep ==
    ASSUME FirstBootInv, CommandSucceeds
    PROVE  FirstBootInv'
<1> USE DEF FirstBootInv
<1>1. /\ command # 0 /\ CanRun /\ settings' = settings \cup {Script[command]}
      /\ key' = IF Running("key") THEN key + 1 ELSE key
      /\ crt' = IF Running("crt") THEN key ELSE crt
      /\ command' = IF command = 10 THEN 0 ELSE command + 1
      /\ power' = power /\ trouble' = trouble /\ UNCHANGED imageVars
      BY ScriptFacts DEF CommandSucceeds, NextCommand
<1>2. /\ programs' = programs /\ status' = status
      BY <1>1 DEF imageVars
<1>3. /\ command \in 1..10 /\ command \in Nat /\ command >= 1 /\ command <= 10
      BY <1>1, Numbers
<1>4. /\ Running("key") <=> command = 2
      /\ Running("crt") <=> command = 3
      /\ Script[command] = "touch" <=> command = 10
      BY <1>1, <1>3, ScriptFacts DEF Running
<1>5. power = "on" /\ ~Marker /\ status = "built"
      BY <1>1 DEF ScriptInv
<1>6. Marker' <=> command = 10
      BY <1>1, <1>4, <1>5 DEF Marker
<1>7. key \in Nat /\ crt \in Nat /\ crt <= key /\ trouble \in Nat
      /\ trouble <= MaxTrouble /\ MaxTrouble \in Nat
      BY Numbers
<1>8. key' = (IF command = 2 THEN key + 1 ELSE key)
      /\ crt' = (IF command = 3 THEN key ELSE crt)
      BY <1>1, <1>4
<1>9. /\ key <= trouble + 1
      /\ command > 2 => "openssl" \in programs /\ key # 0
      /\ command > 3 => crt = key
      /\ command <= 2 => key <= trouble
      BY <1>5 DEF ScriptInv
<1>10. command = 2 => "openssl" \in programs
      BY <1>1, <1>4 DEF CanRun
<1>11. key' \in Nat /\ crt' \in Nat /\ crt' <= key' /\ key' <= trouble + 1
       BY <1>3, <1>7, <1>8, <1>9
<1>12. ASSUME NEW n \in 1..10, n < command' PROVE Script[n] \in settings'
  <2>1. n = command \/ n < command
        BY <1>1, <1>3, <1>12
  <2>2. n < command => Script[n] \in settings
        BY <1>12, ScriptFacts DEF ScriptInv
  <2> QED
      BY <1>1, <2>1, <2>2
<1>13. ScriptInv'
  <2>1. command' > 2 => "openssl" \in programs' /\ key' # 0
        BY <1>1, <1>2, <1>3, <1>7, <1>8, <1>9, <1>10
  <2>2. command' > 3 => crt' = key'
        BY <1>1, <1>3, <1>7, <1>8, <1>9
  <2>3. /\ key' <= trouble' + 1
        /\ command' <= 2 /\ ~Marker' => key' <= trouble'
    <3>1. command' <= 2 /\ ~Marker' => command = 1
          BY <1>1, <1>3, <1>6
    <3>2. command = 1 => key' <= trouble'
          BY <1>1, <1>8, <1>9
    <3> QED
        BY <1>1, <1>11, <3>1, <3>2
  <2>4. command' # 0 => ~Marker'
        BY <1>1, <1>6
  <2>5. \A n \in 1..Len(Script) : n < command' => Script[n] \in settings'
        BY <1>12, ScriptFacts
  <2> QED
      BY <1>1, <1>2, <1>5, <2>1, <2>2, <2>3, <2>4, <2>5 DEF ScriptInv
<1>14. MarkerMeansConfigured'
  <2>1. ASSUME Marker' PROVE Configured \subseteq settings' /\ key' # 0 /\ crt' = key'
    <3>1. command = 10
          BY <1>6, <2>1
    <3>2. ASSUME NEW s \in Configured PROVE s \in settings'
      <4>1. PICK n \in 4..9 : Script[n] = s
            BY ScriptFacts
      <4>2. n \in 1..10 /\ n < command
            BY <3>1
      <4> QED
          BY <1>1, <4>1, <4>2, ScriptFacts DEF ScriptInv
    <3> QED
        BY <1>7, <1>8, <1>9, <3>1, <3>2
  <2> QED
      BY <2>1 DEF MarkerMeansConfigured
<1>15. FirstBootTypeOK'
  <2>1. command' \in Nat /\ command' <= 10
        BY <1>1, <1>3
  <2>2. key' <= MaxTrouble + 1
        BY <1>7, <1>11
  <2>3. settings' \subseteq {Script[n] : n \in 1..Len(Script)}
    <3>1. settings \subseteq {Script[n] : n \in 1..Len(Script)}
          BY DEF FirstBootTypeOK
    <3>2. command \in 1..Len(Script)
          BY <1>3, ScriptFacts
    <3> QED
        BY <1>1, <3>1, <3>2
  <2> QED
      BY <1>1, <1>5, <1>7, <1>11, <2>1, <2>2, <2>3, GuestTyped
<1>16. BuildInv'
       BY <1>1, ImageKept
<1> QED
    BY <1>13, <1>14, <1>15, <1>16

LEMMA GuestStep ==
    ASSUME FirstBootInv, Boot \/ CommandFails \/ PowerLoss \/ Shutdown
    PROVE  FirstBootInv'
<1> USE DEF FirstBootInv
<1>1. trouble' = trouble => trouble' <= MaxTrouble
      BY Numbers
<1>2. CASE Boot
  <2>1. /\ status = "built" /\ power' = "on" /\ trouble' = trouble
        /\ UNCHANGED <<imageVars, settings, key, crt>>
        /\ command' = 0 \/ (command' = 1 /\ ~Marker)
    <3>1. command' = IF SetupDue THEN 1 ELSE 0
          BY <1>2 DEF Boot
    <3>2. SetupDue => ~Marker
          BY DEF SetupDue
    <3>3. command' = 0 \/ (command' = 1 /\ ~Marker)
      <4>1. CASE SetupDue
            BY <3>1, <3>2, <4>1, Zenon
      <4>2. CASE ~SetupDue
            BY <3>1, <4>2, Zenon
      <4> QED
          BY <4>1, <4>2
    <3> QED
        BY <1>2, <3>3 DEF Boot
  <2>2. command = 0
        BY <1>2 DEF Boot, ScriptInv
  <2> QED
      BY <1>1, <2>1, <2>2, RestStep
<1>3. CASE CommandFails
  <2>1. /\ command # 0 /\ command' = 0 /\ power' = power
        /\ UNCHANGED <<imageVars, settings, key, crt>>
        /\ \/ ~CanRun /\ trouble' = trouble
           \/ trouble < MaxTrouble /\ trouble' = trouble + 1
        BY <1>3 DEF CommandFails
  <2>2. ~CanRun => command <= 2
    <3>1. command \in 1..10 /\ command \in Nat
          BY <2>1, Numbers
    <3>2. ~CanRun => command \in {2, 3} /\ "openssl" \notin programs
          BY <3>1, ScriptFacts DEF CanRun, Running
    <3> QED
        BY <3>1, <3>2 DEF ScriptInv
  <2>3. trouble' \in {trouble, trouble + 1} /\ trouble' <= MaxTrouble
        BY <2>1, Numbers
  <2>4. trouble' = trouble => command <= 2
        BY <2>1, <2>2, Numbers
  <2>5. power' \in {"off", "on"} /\ (power' = "on" => status = "built")
        BY <2>1 DEF FirstBootTypeOK, ScriptInv
  <2> QED
      BY <2>1, <2>3, <2>4, <2>5, RestStep
<1>4. CASE PowerLoss
  <2>1. /\ trouble < MaxTrouble /\ power' = "off" /\ command' = 0
        /\ trouble' = trouble + 1 /\ UNCHANGED <<imageVars, settings, key, crt>>
        BY <1>4 DEF PowerLoss
  <2>2. trouble' # trouble /\ trouble' <= MaxTrouble
        BY <2>1, Numbers
  <2> QED
      BY <2>1, <2>2, RestStep
<1>5. CASE Shutdown
  <2>1. /\ command = 0 /\ command' = command /\ power' = "off"
        /\ trouble' = trouble /\ UNCHANGED <<imageVars, settings, key, crt>>
        BY <1>5 DEF Shutdown
  <2> QED
      BY <1>1, <2>1, RestStep
<1> QED
    BY <1>2, <1>3, <1>4, <1>5

------------------------------------------------------------------------------
(* The theorems *)

LEMMA FirstBootStart == FirstBootInit => FirstBootInv
<1> SUFFICES ASSUME FirstBootInit PROVE FirstBootInv
    OBVIOUS
<1>1. /\ wants = {} /\ status = "none" /\ next = 1 /\ programs = {}
      /\ files = {} /\ units = {} /\ power = "off" /\ command = 0
      /\ settings = {} /\ key = 0 /\ crt = 0 /\ trouble = 0 /\ ~Marker
      BY DEF FirstBootInit, Marker
<1>2. /\ Len(Containerfile(wants)) \in Nat
      /\ Len(Containerfile(Customizations)) = 7 /\ Len(Script) = 10
      BY <1>1, ContainerfileFacts, ScriptFacts
<1>3. /\ 1 \in 1..Len(Containerfile(wants)) + 1
      /\ 1 \in 1..Len(Containerfile(Customizations)) + 1
      /\ 0 \in 0..Len(Script) /\ 0 \in 0..MaxTrouble + 1 /\ 0 \in 0..0
      /\ 0 \in 0..MaxTrouble
      BY <1>2, FirstBootAssumption
<1>4. FirstBootTypeOK
      BY <1>1, <1>3 DEF FirstBootTypeOK
<1>5. BuildInv
      BY <1>1, <1>3 DEF BuildInv
<1>6. ScriptInv
  <2>1. \A n \in 1..Len(Script) : ~(n < command)
        BY <1>1, <1>2
  <2> QED
      BY <1>1, <2>1 DEF ScriptInv
<1>7. MarkerMeansConfigured
      BY <1>1 DEF MarkerMeansConfigured
<1> QED
    BY <1>4, <1>5, <1>6, <1>7 DEF FirstBootInv

LEMMA FirstBootStep == FirstBootInv /\ [FirstBootNext]_fvars => FirstBootInv'
<1> SUFFICES ASSUME FirstBootInv, [FirstBootNext]_fvars PROVE FirstBootInv'
    OBVIOUS
<1>1. CASE UNCHANGED fvars
  <2>1. UNCHANGED imageVars /\ UNCHANGED <<power, command, settings, key, crt, trouble>>
        BY <1>1 DEF fvars, imageVars
  <2>2. BuildInv'
        BY <2>1, ImageKept DEF FirstBootInv
  <2>3. FirstBootTypeOK' /\ MarkerMeansConfigured'
        BY <2>1 DEF FirstBootInv, FirstBootTypeOK, imageVars,
                    MarkerMeansConfigured, Marker
  <2>4. ScriptInv'
        BY <2>1 DEF FirstBootInv, ScriptInv, imageVars, Marker
  <2> QED
      BY <2>2, <2>3, <2>4 DEF FirstBootInv
<1> QED
    BY <1>1, GenerateStep, BuildStep, CommandSucceedsStep, GuestStep
    DEF FirstBootNext, Setup

LEMMA FirstBootInvariance == FirstBootSpec => []FirstBootInv
BY FirstBootStart, FirstBootStep, PTL DEF FirstBootSpec

(* However often a guest loses power and its commands fail, the image, the *)
(* guest's disk and the script stay well-formed; every run that leaves a   *)
(* TLS key without a marker has cost a failure, so the keys are counted.   *)
THEOREM FirstBootTypeCorrect == FirstBootSpec => []FirstBootTypeOK
<1>1. FirstBootInv => FirstBootTypeOK
      BY DEF FirstBootInv
<1> QED
    BY <1>1, FirstBootInvariance, PTL

LEMMA BuiltHas ==
    ASSUME FirstBootInv, status = "built", NEW i, Has(Containerfile(wants), i)
    PROVE  Effect(i)
<1>1. PICK m \in 1..Len(Containerfile(wants)) : Containerfile(wants)[m] = i
      BY DEF Has
<1>2. /\ next = Len(Containerfile(wants)) + 1
      /\ Len(Containerfile(wants)) \in Nat
      BY TypeFacts DEF FirstBootInv, BuildInv
<1>3. m \in 1..next - 1
      BY <1>2
<1>4. Effect(Containerfile(wants)[m])
      BY <1>3 DEF FirstBootInv, BuildInv
<1> QED
    BY <1>1, <1>4

(* For every set of customisations: an image that podman has built has the *)
(* services it was asked for, installed and enabled, although a failing    *)
(* package manager does not fail the build.                                *)
THEOREM BuiltImagesHaveServices == FirstBootSpec => []BuiltHasServices
<1>1. ASSUME FirstBootInv PROVE BuiltHasServices
  <2> SUFFICES ASSUME status = "built" PROVE
                 /\ "ssh" \in wants => "sshd" \in programs \cap units
                 /\ "rdp" \in wants =>
                      /\ "grdctl" \in programs /\ files = {"script", "unit"}
                      /\ RdpUnits \subseteq units
      BY DEF BuiltHasServices
  <2>1. /\ wants \in SUBSET Customizations /\ files \subseteq {"script", "unit"}
        BY <1>1, TypeFacts DEF FirstBootInv, FirstBootTypeOK
  <2>2. ASSUME EnableUnits(wants) # {}
        PROVE  /\ EnableUnits(wants) \subseteq units
               /\ \A u \in EnableUnits(wants) : UnitExists(u)
    <3>1. Has(Containerfile(wants), "enable")
          BY <2>1, <2>2, ContainerfileFacts
    <3>2. Effect("enable")
          BY <1>1, <3>1, BuiltHas
    <3> QED
        BY <3>2 DEF Effect
  <2>3. ASSUME "ssh" \in wants PROVE "sshd" \in programs \cap units
    <3>1. "sshd" \in EnableUnits(wants)
          BY <2>3 DEF EnableUnits
    <3>2. "sshd" \in units /\ UnitExists("sshd")
          BY <2>2, <3>1
    <3> QED
        BY <3>2 DEF UnitExists
  <2>4. ASSUME "rdp" \in wants
        PROVE  /\ "grdctl" \in programs /\ files = {"script", "unit"}
               /\ RdpUnits \subseteq units
    <3>1. RdpUnits \subseteq EnableUnits(wants)
          BY <2>4 DEF EnableUnits
    <3>2. "gnome-remote-desktop" \in RdpUnits
          BY DEF RdpUnits
    <3>3. RdpUnits \subseteq units /\ UnitExists("gnome-remote-desktop")
          BY <2>2, <3>1, <3>2
    <3>4. "grdctl" \in programs
          BY <3>3 DEF UnitExists
    <3>5. Effect("embed-script") /\ Effect("embed-unit")
          BY <1>1, <2>1, <2>4, ContainerfileFacts, BuiltHas
    <3>6. files = {"script", "unit"}
          BY <2>1, <3>5 DEF Effect
    <3> QED
        BY <3>3, <3>4, <3>6
  <2> QED
      BY <2>3, <2>4
<1> QED
    BY <1>1, FirstBootInvariance, PTL

(* For any number of power losses and failing commands, at any command of  *)
(* any run of the script: a guest with the marker has all the settings and *)
(* a certificate that belongs to its key.                                  *)
THEOREM MarkersMeanConfigured == FirstBootSpec => []MarkerMeansConfigured
<1>1. FirstBootInv => MarkerMeansConfigured
      BY DEF FirstBootInv
<1> QED
    BY <1>1, FirstBootInvariance, PTL
==============================================================================
