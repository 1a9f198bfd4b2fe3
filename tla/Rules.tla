------------------------------- MODULE Rules -------------------------------
(***************************************************************************)
(* What the agent concludes about a device: the vendor from its hardware   *)
(* address (lanscope/src/fingerprint/oui.rs) and the device type from its  *)
(* texts (rules.rs).  A rule asks whether the device's texts, put together *)
(* and in lower case, contain its needle; no needle spans two of them.     *)
(***************************************************************************)
EXTENDS Registry, TLC

CONSTANT Has(_)  \* the needles a text contains, once it is in lower case

Rule(needle, device_type, category, confidence) ==
    [needle |-> needle, device_type |-> device_type,
     category |-> category, confidence |-> confidence]  \* in percent

\* "strong: advertised services / SSDP banners", "medium: DHCP vendor class".
StrongRules == <<
    Rule("amazonecho",       "Amazon Echo",          "smart-speaker",  95),
    Rule("_googlecast",      "Google Chromecast",    "media-streamer", 92),
    Rule("googlecast",       "Google Chromecast",    "media-streamer", 90),
    Rule("sonos",            "Sonos Speaker",        "smart-speaker",  92),
    Rule("roku",             "Roku Streamer",        "media-streamer", 90),
    Rule("_raop",            "AirPlay Device",       "media-streamer", 85),
    Rule("_airplay",         "AirPlay Device",       "media-streamer", 85),
    Rule("spotify-connect",  "Spotify Speaker",      "smart-speaker",  80),
    Rule("philips hue",      "Philips Hue Bridge",   "smart-light",    92),
    Rule("_hue",             "Philips Hue Bridge",   "smart-light",    90),
    Rule("lifx",             "LIFX Bulb",            "smart-light",    90),
    Rule("_ipp",             "Network Printer",      "printer",        90),
    Rule("_pdl-datastream",  "Network Printer",      "printer",        90),
    Rule("_printer",         "Network Printer",      "printer",        90),
    Rule("diskstation",      "Synology NAS",         "nas",            90),
    Rule("_smb",             "File Server / NAS",    "nas",            60),
    Rule("_raspberrypi",     "Raspberry Pi",         "sbc",            85),
    Rule("_homekit",         "HomeKit Accessory",    "iot-sensor",     70),
    Rule("_hap",             "HomeKit Accessory",    "iot-sensor",     70),
    Rule("android-dhcp",     "Android Phone/Tablet", "phone",          85),
    Rule("msft 5.0",         "Windows PC",           "computer",       80) >>

\* "weak: OUI vendor fallback".
WeakRules == <<
    Rule("raspberry pi",     "Raspberry Pi",         "sbc",            70),
    Rule("espressif",        "ESP32/ESP8266 Module", "iot-sensor",     70),
    Rule("nest labs",        "Nest Device",          "iot-sensor",     60),
    Rule("lifx",             "LIFX Bulb",            "smart-light",    65),
    Rule("amazon",           "Amazon Device",        "smart-speaker",  55),
    Rule("philips",          "Philips Smart Device", "smart-light",    55),
    Rule("tp-link",          "TP-Link Device",       "router",         50),
    Rule("apple",            "Apple Device",         "computer",       50),
    Rule("google",           "Google Device",        "media-streamer", 50) >>

RULES == StrongRules \o WeakRules

\* build_haystack: the DHCP fingerprint is no part of it.
Haystack(texts, services) ==
    LET fields == {"vendor", "dhcp_vendor_class", "hostname"} \cap DOMAIN texts
    IN  UNION {Has(t) : t \in ({texts[f] : f \in fields} \ {None}) \cup services}

Matching(haystack) == {i \in DOMAIN RULES : RULES[i].needle \in haystack}

\* max_by: of several rules with the highest confidence the last one wins.
\* Mutant: the operands of total_cmp are swapped.
LeastOf(I) == CHOOSE i \in I : \A j \in I : RULES[i].confidence <= RULES[j].confidence
BestOf(I) ==
    CHOOSE i \in I : \A j \in I :
        \/ RULES[j].confidence < RULES[i].confidence
        \/ RULES[j].confidence = RULES[i].confidence /\ j <= i

DeviceTypeOf(texts, services) ==
    LET matching == Matching(Haystack(texts, services))
    IN  IF matching = {} THEN None ELSE RULES[BestOf(matching)].device_type

-----------------------------------------------------------------------------
(* oui.rs.  Addresses are tuples of six bytes.                             *)

TABLE ==
    <<\hb8, \h27, \heb>> :> "Raspberry Pi Foundation" @@
    <<\hdc, \ha6, \h32>> :> "Raspberry Pi Trading" @@
    <<\he4, \h5f, \h01>> :> "Raspberry Pi Trading" @@
    <<\h44, \h65, \h0d>> :> "Amazon Technologies" @@
    <<\hfc, \h65, \hde>> :> "Amazon Technologies" @@
    <<\h68, \h37, \he9>> :> "Amazon Technologies" @@
    <<\h18, \hb4, \h30>> :> "Nest Labs" @@
    <<\h64, \h16, \h66>> :> "Nest Labs" @@
    <<\h00, \h17, \h88>> :> "Philips Hue (Signify)" @@
    <<\hec, \hb5, \hfa>> :> "Philips Lighting" @@
    <<\hd0, \h73, \hd5>> :> "LIFX" @@
    <<\h50, \hc7, \hbf>> :> "TP-Link" @@
    <<\h54, \h60, \h09>> :> "Google" @@
    <<\hf4, \hf5, \hd8>> :> "Google" @@
    <<\h3c, \h5a, \hb4>> :> "Google" @@
    <<\h24, \h0a, \hc4>> :> "Espressif (ESP32/ESP8266)" @@
    <<\h7c, \h9e, \hbd>> :> "Espressif (ESP32/ESP8266)" @@
    <<\h5c, \hcf, \h7f>> :> "Espressif (ESP32/ESP8266)" @@
    <<\ha4, \hcf, \h12>> :> "Espressif (ESP32/ESP8266)" @@
    <<\h00, \h1b, \h63>> :> "Apple" @@
    <<\hac, \hbc, \h32>> :> "Apple" @@
    <<\hf0, \h18, \h98>> :> "Apple" @@
    <<\h00, \h0c, \h29>> :> "VMware"

\* lookup: the bit of locally administered addresses is asked for, the one of
\* multicast addresses is not.
LocallyAdministered(mac) == (mac[1] \div 2) % 2 = 1

Lookup(mac) ==
    LET prefix == SubSeq(mac, 1, 3) IN
    CASE mac = <<0, 0, 0, 0, 0, 0>> -> None
      [] LocallyAdministered(mac)   -> <<"(locally administered)">>
      [] prefix \in DOMAIN TABLE    -> <<TABLE[prefix]>>
      [] OTHER                      -> None
=============================================================================
