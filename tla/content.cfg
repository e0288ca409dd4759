SPECIFICATION Spec
CONSTANTS
    Void = Void
    s1 = s1
    s2 = s2
    e1 = e1
    test = test
    live = live
    Modes = {test, live}
    e2 = e2
    Slots = {s1, s2}
    MaxCalls = 5
    MaxFails = 1
    Pages = {1, 2, 3}
    PageSlugs = {"home", "about"}
    StartPages <- MCStartPages
    SeededHome <- MCSeededHome
    Slugs = {"a", "b"}
    MaxRows = 4
    Gone = Gone
    Media = {"a", "b", "c"}
    PurchaseFiles = {"f"}
    StartFiles <- MCStartFiles
    Products = {"p", "q"}
    ProductSlugs = {"x", "y"}
    StartProducts <- MCStartProducts
    External = {e1, e2}
    MaxPrices = 2
    Settings <- MCSettings
    sk1 = sk1
    sk2 = sk2
    web1 = web1
    web2 = web2
    Choices = {sk1, sk2}
    Mask = Mask
    Servers = {web1, web2}
    StartStored <- MCStartStored
    MaxVersion = 3
    tab1 = tab1
    tab2 = tab2
    Browsers = {tab1, tab2}
    Datasets = {"dev", "production"}
    dev = dev
    production = production
    Envs = {dev, production}
    MaxBought = 4
    MaxPriced = 2
SYMMETRY Symmetry
INVARIANTS
    OwnersAreThere
    ObjectsHaveRows
    SecretSurvives
    SwitchedWithKeys
PROPERTIES
    HomeIsAlone
    LinkIsKept
    SeedRepeats
CHECK_DEADLOCK FALSE
