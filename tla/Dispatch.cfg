CONSTANTS
    Callback = {f, g}
    NoCallback = NoCallback
    MaxRoutes = 2
    MaxParams = 2
SPECIFICATION DispatchSpec
INVARIANT UriExact
INVARIANT ParamsExact
PROPERTY RoutesStay
