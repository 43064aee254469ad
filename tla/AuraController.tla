---------------------------- MODULE AuraController ----------------------------
(***************************************************************************)
(* One ASUS Aura USB controller: the HID interface discovery selects, the  *)
(* config table its channels are read from, the zones the device exposes   *)
(* over those channels, and the reports each operation sends.              *)
(*                                                                         *)
(* DeviceManager sees of all this whether a write succeeded.  Here a write *)
(* is a sequence of 65-byte reports, any of which may fail, and the        *)
(* hardware is what those reports leave: a mode per effect channel and,    *)
(* per direct channel, the LEDs shown and those received but not applied   *)
(* yet.  A LED of a frame is <<frame, position>>, so that LEDs sent to the *)
(* wrong offset are told apart.                                            *)
(***************************************************************************)
EXTENDS Indices, Sequences

CONSTANTS
  HeaderCount,     \* kAsusAuraHeaderCount (3)
  MaskLeds,        \* kAsusAuraFixedColorMaskLeds (16)
  MaxChannels,     \* kAuraMaxDirectChannels (16)
  MaxLeds,         \* kAsusAuraMaxResearchLeds (120)
  LedsPerPacket,   \* kAuraDirectMaxLedsPerPacket (20)
  Picture,         \* what a frame or a color shows
  Probe,           \* the sequences of HID interfaces a probe can find
  MaxWrites        \* bound on operations

Interface ==
  [path : Nat, score : Nat, number : Int, raw : [addressable : Nat, mainboard : Nat, headers : Nat]]

(* What the constants are taken to be.                                      *)
AuraAssumption ==
  /\ {HeaderCount, MaskLeds, MaxChannels, MaxLeds, LedsPerPacket, MaxWrites} \subseteq Nat \ {0}
  /\ Probe \subseteq Seq(Interface)

VARIABLES
  found,   \* the interfaces of one physical controller, or <<>> once discovered
  config,  \* the verified config table, or Invalid
  auraZones, \* RgbZone: [type, leds, current, colors]
  hw,      \* the controller: [mode, lit, buffer]
  told,    \* history, per zone: the mode set by the last effect or all-off that
           \* was acknowledged ("unknown" after one that failed)
  synced,  \* history, per zone: how many of the model's LEDs were sent in that mode
  writes

auraVars == <<found, config, auraZones, hw, told, synced, writes>>

Min2(a, b) == IF a < b THEN a ELSE b

-----------------------------------------------------------------------------
(* The config table. *)

Invalid == [valid |-> FALSE, channels |-> <<>>]

FixedLeds(c)  == {i \in DOMAIN c.channels : c.channels[i].type = "fixed"}
DirectLeds(c) == {i \in DOMAIN c.channels : c.channels[i].type = "addressable"}

Fixed(c)       == c.channels[First(FixedLeds(c))]
Addressable(c) ==
  [k \in DOMAIN Ascending(DirectLeds(c)) |-> c.channels[Ascending(DirectLeds(c))[k]]]

(* The zones of the fixed channel: one per RGB header, or the whole        *)
(* channel if the color mask can address it.                               *)
FixedExposedZoneCount(c) ==
  IF FixedLeds(c) = {} THEN 0
  ELSE IF Fixed(c).headers > 0 THEN Min2(Fixed(c).headers, HeaderCount)
  ELSE IF Fixed(c).leds \in 1 .. MaskLeds THEN 1 ELSE 0

ExposedZoneCount(c) == FixedExposedZoneCount(c) + Len(Addressable(c))

ConfigIsValid(c) ==
  LET ch == c.channels
      direct == DirectLeds(c)
  IN  /\ ch # <<>>
      /\ \A i, j \in DOMAIN ch : ch[i].effect = ch[j].effect => i = j
      /\ Cardinality(FixedLeds(c)) <= 1
      /\ \A i \in FixedLeds(c) :
           /\ ch[i].leds >= 1 /\ ch[i].headers \in 0 .. Min2(HeaderCount, ch[i].leds)
           /\ ch[i].headers > 0 => ch[i].leds <= MaskLeds
      /\ \A i \in direct : ch[i].leds \in 1 .. MaxLeds /\ ch[i].direct \in 0 .. MaxChannels - 1
      /\ \A i, j \in direct : ch[i].direct = ch[j].direct => i = j
      /\ ExposedZoneCount(c) > 0

(* raw: the three bytes of the response that count. *)
ParseConfig(raw) ==
  LET headers == IF raw.headers > raw.mainboard THEN 0 ELSE raw.headers
      fixed   == IF raw.mainboard = 0 THEN <<>>
                 ELSE <<[type |-> "fixed", effect |-> 0, direct |-> 4,
                         leds |-> raw.mainboard, headers |-> headers]>>
      table   == [valid |-> TRUE,
                  channels |-> fixed \o [i \in 1 .. raw.addressable |->
                    [type |-> "addressable", effect |-> Len(fixed) + i - 1, direct |-> i - 1,
                     leds |-> MaxLeds, headers |-> 0]]]
  IN  IF \/ raw.addressable > MaxChannels
         \/ headers > HeaderCount
         \/ headers > 0 /\ raw.mainboard > MaskLeds
         \/ ~ConfigIsValid(table)
      THEN Invalid ELSE table

(* Mutant: a zone has the channel of its own position. *)
ChannelOfSamePosition(c, z) == c.channels[Min2(z, Len(c.channels))]

(* resolveEffectTarget: the channel a zone (1, 2 ...) is written through. *)
ChannelOf(c, z) ==
  IF z <= FixedExposedZoneCount(c) THEN Fixed(c)
  ELSE Addressable(c)[z - FixedExposedZoneCount(c)]

-----------------------------------------------------------------------------
(* Reports, and what the controller does with them. *)

Gen1 == [kind |-> "gen1"]
Mode(channel, mode) == [kind |-> "mode", channel |-> channel, mode |-> mode]

(* The number of packets that n LEDs take. *)
Packets(n) == CHOOSE m \in 1 .. n : (m - 1) * LedsPerPacket < n /\ n <= m * LedsPerPacket

(* Packet k of a frame. *)
Packet(channel, colors, k, apply) ==
  LET offset == (k - 1) * LedsPerPacket
  IN  [kind |-> "direct", channel |-> channel, start |-> offset, apply |-> apply,
       colors |-> [i \in 1 .. Min2(LedsPerPacket, Len(colors) - offset) |-> colors[offset + i]]]

(* Mutant: every packet is applied as it comes. *)
DirectReportsAppliedEarly(channel, colors) ==
  [k \in 1 .. Packets(Len(colors)) |-> Packet(channel, colors, k, TRUE)]

(* A frame in packets of LedsPerPacket LEDs; the last one applies it. *)
DirectReports(channel, colors) ==
  [k \in 1 .. Packets(Len(colors)) |->
     Packet(channel, colors, k, k = Packets(Len(colors)))]

(* buildAsusAuraDirectFrameWrite, with or without direct mode; a static    *)
(* color takes the same reports on an addressable channel.                 *)
FrameReports(channel, colors, primes) ==
  (IF primes THEN <<Gen1, Mode(channel.effect, "direct")>> ELSE <<>>)
    \o DirectReports(channel.direct, colors)

AllOffReports(c) ==
  <<Gen1>> \o [i \in DOMAIN Addressable(c) |-> Mode(Addressable(c)[i].effect, "off")]

Receive(h, r) ==
  CASE r.kind = "gen1" -> h
    [] r.kind = "mode" -> [h EXCEPT !.mode[r.channel] = r.mode]
    [] r.kind = "direct" ->
         LET b == [i \in 1 .. MaxLeds |->
                     IF i - r.start \in DOMAIN r.colors THEN r.colors[i - r.start]
                     ELSE h.buffer[r.channel][i]]
         IN  [h EXCEPT !.buffer[r.channel] = b,
                       !.lit[r.channel] = IF r.apply THEN b ELSE @]

-----------------------------------------------------------------------------
(* Discovery. *)

(* Mutant: the order of the interfaces decides. *)
BetterThanSeen(a, b) == ParseConfig(a.raw).valid

(* isBetterAuraCandidate: a verified table, then the score of the names,   *)
(* then the lowest interface number that is known, then the path.          *)
Better(a, b) ==
  LET va == ParseConfig(a.raw).valid
      vb == ParseConfig(b.raw).valid
  IN  IF va # vb THEN va
      ELSE IF a.score # b.score THEN a.score > b.score
      ELSE IF a.number = b.number THEN a.path < b.path
      ELSE IF a.number < 0 \/ b.number < 0 THEN a.number >= 0
      ELSE a.number < b.number

(* What discoverDevices keeps of one physical controller's interfaces. *)
Selected(interfaces) ==
  LET best[i \in DOMAIN interfaces] ==
        IF i = 1 THEN interfaces[1]
        ELSE IF Better(interfaces[i], best[i - 1]) THEN interfaces[i] ELSE best[i - 1]
  IN  best[Len(interfaces)]

Solid(p, n) == [i \in 1 .. n |-> <<p, 0>>]
Black       == "black"
Frame(p, n) == [i \in 1 .. n |-> <<p, i>>]

Zone(type, leds) ==
  [type |-> type, leds |-> leds, current |-> <<"preview", 0>>, colors |-> Solid("preview", leds)]

(* initializeZones: fixed zones first; without a table three zones that    *)
(* cannot be written.                                                      *)
InitializeZones(c) ==
  IF ~c.valid
  THEN <<Zone("Motherboard", Min2(2, MaxLeds)), Zone("AddressableHeader", MaxLeds)>>
  ELSE [i \in 1 .. FixedExposedZoneCount(c) |->
          Zone("Motherboard", IF Fixed(c).headers > 0 THEN 1 ELSE Fixed(c).leds)]
       \o [i \in 1 .. Len(Addressable(c)) |-> Zone("AddressableHeader", MaxLeds)]

Dark == [i \in 1 .. MaxLeds |-> <<"initial", 0>>]

AuraInit ==
  /\ found \in Probe
  /\ config = Invalid /\ auraZones = <<>>
  /\ hw = [mode |-> [ch \in 0 .. MaxChannels |-> "initial"],
           lit |-> [ch \in 0 .. MaxChannels - 1 |-> Dark],
           buffer |-> [ch \in 0 .. MaxChannels - 1 |-> Dark]]
  /\ told = <<>> /\ synced = <<>> /\ writes = 0

DiscoverDevices ==
  /\ found # <<>> /\ found' = <<>>
  /\ config' = ParseConfig(Selected(found).raw)
  /\ auraZones' = InitializeZones(config')
  /\ told' = [z \in DOMAIN auraZones' |-> "initial"]
  /\ synced' = [z \in DOMAIN auraZones' |-> 0]
  /\ UNCHANGED <<hw, writes>>

-----------------------------------------------------------------------------
(* The device. *)

IsAddressableZone(z) == config.valid /\ z \in DOMAIN auraZones /\ z > FixedExposedZoneCount(config)

(* sendApprovedPacket: reports are written one by one until one fails;     *)
(* Received[k] is what the first k of them make of h.                      *)
Received(h, reports) ==
  LET after[k \in 0 .. Len(reports)] ==
        IF k = 0 THEN h ELSE Receive(after[k - 1], reports[k])
  IN  after

Send(reports, k) == hw' = Received(hw, reports)[k]

DeviceOperation ==
  /\ found = <<>>
  /\ writes < MaxWrites /\ writes' = writes + 1
  /\ UNCHANGED <<found, config>>

(* RgbZone::setLedColors repeats a frame over the LEDs of the zone and      *)
(* takes its middle color for the current one.                             *)
Repeated(colors, n) == [i \in 1 .. n |-> colors[((i - 1) % Len(colors)) + 1]]
Middle(colors) == colors[(Len(colors) \div 2) + 1]

Painted(zone, colors, current) == [zone EXCEPT !.colors = colors, !.current = current]

SetLedColors(zone, colors) == Painted(zone, Repeated(colors, zone.leds), Middle(colors))

(* RgbZone::setLedCount: new LEDs take the current color. *)
SetLedCount(zone, n) ==
  [zone EXCEPT !.leds = n,
               !.colors = [i \in 1 .. n |-> IF i \in 1 .. zone.leds THEN zone.colors[i]
                                            ELSE zone.current]]

(* The effect of applyLocalAllOff on one zone. *)
SwitchedOff(zone) == Painted(zone, Solid(Black, zone.leds), <<Black, 0>>)

AddressableZones == {z \in DOMAIN auraZones : z > FixedExposedZoneCount(config)}

(* applyZoneEffect: a static color or the first frame of a streamed effect. *)
ApplyZoneEffect(z, colors) ==
  LET reports == FrameReports(ChannelOf(config, z), colors, TRUE)
  IN  /\ IsAddressableZone(z)
      /\ DeviceOperation
      /\ \E k \in 0 .. Len(reports) :
           /\ Send(reports, k)
           /\ IF k = Len(reports)
              THEN /\ auraZones' = [auraZones EXCEPT ![z] = Painted(@, colors, Middle(colors))]
                   /\ told' = [told EXCEPT ![z] = "direct"]
                   /\ synced' = [synced EXCEPT ![z] = Len(colors)]
              ELSE /\ UNCHANGED auraZones
                   /\ told' = [told EXCEPT ![z] = "unknown"]
                   /\ synced' = [synced EXCEPT ![z] = 0]

(* applyZoneFrame: any client's frame, for any addressable zone, whatever  *)
(* its effect, be it off or never written.  The mode is not set again, so  *)
(* only a channel in direct mode shows the frame; the model takes it over  *)
(* in every case.                                                          *)
ApplyZoneFrame(z, colors) ==
  LET reports == FrameReports(ChannelOf(config, z), colors, FALSE)
  IN  /\ IsAddressableZone(z)
      /\ DeviceOperation
      /\ \E k \in 0 .. Len(reports) :
           /\ Send(reports, k)
           /\ IF k = Len(reports)
              THEN /\ auraZones' = [auraZones EXCEPT ![z] = SetLedColors(@, colors)]
                   /\ synced' = [synced EXCEPT ![z] =
                        IF told[z] = "direct" THEN Min2(Len(colors), auraZones[z].leds) ELSE 0]
              ELSE UNCHANGED <<auraZones, synced>>
      /\ UNCHANGED told

(* paintZoneFrame under dry-run: the model alone takes a frame over, on    *)
(* any zone of any device.                                                 *)
PreviewZoneFrame(z, colors) ==
  /\ z \in DOMAIN auraZones
  /\ DeviceOperation
  /\ auraZones' = [auraZones EXCEPT ![z] = SetLedColors(@, colors)]
  /\ synced' = [synced EXCEPT ![z] = 0]
  /\ UNCHANGED <<hw, told>>

ApplyAllOff ==
  LET reports == AllOffReports(config)
  IN  /\ config.valid
      /\ DeviceOperation
      /\ \E k \in 0 .. Len(reports) :
           LET done == k = Len(reports)
           IN  /\ Send(reports, k)
               /\ auraZones' = [z \in DOMAIN auraZones |->
                    IF done /\ z \in AddressableZones THEN SwitchedOff(auraZones[z])
                    ELSE auraZones[z]]
               /\ told' = [z \in DOMAIN auraZones |->
                    IF z \notin AddressableZones THEN told[z]
                    ELSE IF done THEN "off" ELSE "unknown"]
               /\ synced' = [z \in DOMAIN auraZones |->
                    IF z \notin AddressableZones THEN synced[z]
                    ELSE IF done THEN auraZones[z].leds ELSE 0]

(* updateZoneMetadata.  A fixed zone's count is the table's. *)
UpdateZoneMetadata(z, n) ==
  /\ z \in DOMAIN auraZones /\ n \in 1 .. MaxLeds /\ n # auraZones[z].leds
  /\ ~config.valid \/ z > FixedExposedZoneCount(config)
  /\ DeviceOperation
  /\ auraZones' = [auraZones EXCEPT ![z] = SetLedCount(@, n)]
  /\ synced' = [synced EXCEPT ![z] = Min2(@, n)]
  /\ UNCHANGED <<hw, told>>

AuraNext ==
  \/ DiscoverDevices
  \/ \E z \in DOMAIN auraZones, p \in Picture :
       \/ ApplyZoneEffect(z, Solid(p, auraZones[z].leds))
       \/ ApplyZoneEffect(z, Frame(p, auraZones[z].leds))
  \/ \E z \in DOMAIN auraZones, p \in Picture, n \in 1 .. MaxLeds :
       ApplyZoneFrame(z, Frame(p, n)) \/ PreviewZoneFrame(z, Frame(p, n))
  \/ ApplyAllOff
  \/ \E z \in DOMAIN auraZones, n \in 1 .. MaxLeds : UpdateZoneMetadata(z, n)

AuraSpec == AuraInit /\ [][AuraNext]_auraVars

-----------------------------------------------------------------------------
(* Discovery takes an interface no other one beats, whatever order they    *)
(* are enumerated in: in particular a verified table if there is one.      *)
SelectionIsBest ==
  \A i \in DOMAIN found : ~Better(found[i], Selected(found))

(* The zones the device exposes and the channels they are written through  *)
(* agree, for every config table the parser lets pass: each addressable    *)
(* zone has an addressable channel, and one of its own; and no operation,  *)
(* failing or not, writes the fixed mainboard channel.                     *)
ZonesOwnTheirChannels ==
  config.valid =>
    /\ \A z \in DOMAIN auraZones :
         auraZones[z].type = "AddressableHeader" <=> ChannelOf(config, z).type = "addressable"
    /\ \A y, z \in DOMAIN auraZones :
         IsAddressableZone(y) /\ IsAddressableZone(z) /\ y # z =>
           ChannelOf(config, y) # ChannelOf(config, z)
    /\ \A i \in FixedLeds(config) : hw.mode[config.channels[i].effect] = "initial"

(* A channel stays in the mode the last acknowledged effect or all-off set *)
(* (or in the one it was found in), whatever frames come after it: a zone  *)
(* switched off stays dark, and one never written keeps its own program.   *)
(* In direct mode the LEDs sent show what the model says, through frames   *)
(* that fail halfway and LED counts that change, until an effect or an     *)
(* all-off fails or dry-run changes the model alone; the LEDs of a zone    *)
(* switched off are black in the model, until such a frame is recorded.    *)
ShowsTheModel ==
  \A z \in DOMAIN auraZones : IsAddressableZone(z) /\ told[z] # "unknown" =>
    LET ch == ChannelOf(config, z)
    IN  /\ hw.mode[ch.effect] = told[z]
        /\ told[z] = "direct" =>
             \A i \in 1 .. synced[z] : hw.lit[ch.direct][i] = auraZones[z].colors[i]
        /\ told[z] = "off" => \A i \in 1 .. synced[z] : auraZones[z].colors[i] = <<Black, 0>>
=============================================================================
