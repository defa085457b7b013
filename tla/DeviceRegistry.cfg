SPECIFICATION FairSpec
CONSTANTS
    switch = switch
    light = light
    tv = tv
    pair = pair
    lights = lights
    Devices = {switch, light, tv}
    At <- Places
    Infrared = {tv}
    Watched = {switch, light}
    Stated = {light}
    Groups = {pair, lights}
    Links = {pair}
    Offered <- Offers
    Tolerated = 1
    Silence = 1
INVARIANT TypeOK
INVARIANT CloudAgrees
INVARIANT NoGhosts
PROPERTY SilentIsShown
